---- MODULE Spec2Model ----
(***************************************************************************)
(* Model of the marketpalace subscription contract: the execute entry      *)
(* point of src/src/contract.rs with its stored State and its list of      *)
(* pending asset exchange authorizations, and the attribute module of the  *)
(* chain that the contract queries.                                        *)
(*                                                                         *)
(* An Option<T> is modelled as a sequence: <<>> is None, <<v>> is Some(v). *)
(* A command that returns Err is discarded by the host: the stored values  *)
(* stay as they were and only the response is observed.                    *)
(***************************************************************************)
EXTENDS Integers, Sequences, FiniteSets

VARIABLES
    state,           \* the State singleton (state_storage)
    authorizations,  \* may_load() of asset_exchange_authorization_storage:
                     \* None until the first save, then Some(list)
    last,            \* the last command and the Result execute returned
    written,         \* the authorization singleton as the last handler left it
    tally,           \* history: None, or Some(the successful commands counted
                     \* per batch) in the behaviours that keep the count
    registry         \* the attribute module the querier reads: the names of
                     \* the attributes each account holds

vars == <<state, authorizations, last, written, tally, registry>>

----------------------------------------------------------------------------
(* Option<T> *)

None == <<>>

Some(v) == <<v>>

is_some(o) == o /= None

unwrap(o) == o[1]

----------------------------------------------------------------------------
(* Bounds of the model *)

\* longest exchange batch of a command
MaxLines == 2

\* longest list of pending authorizations
MaxPending == 3

\* successful AuthorizeAssetExchange commands in a behaviour that keeps the tally
MaxAuthorize == 2

\* transactions recorded in the lifetime of a commitment
MaxSequence == 3

\* pending authorizations while near-equal batches are matched
MaxMatching == 1

----------------------------------------------------------------------------
(* Addresses and denoms *)

\* "raise_1" is neither lp nor admin at first; Recover can make it the lp
Senders == {"lp", "admin", "raise_1"}

RecoverTargets == {"lp", "admin", "raise_1"}

MOCK_CONTRACT_ADDR == "cosmos2contract"

\* the accounts the attribute module knows
Accounts == {"lp_side_account", "raise_1"}

AttributeSets == {{}, {"capital.test"}, {"other.attribute"}}

Registries == [Accounts -> AttributeSets]

\* no account holds an attribute
NoAttributes == [a \in Accounts |-> {}]

\* the registries that differ in what the raise holds
RaiseRegistries == {r \in Registries : r["lp_side_account"] = {}}

\* every denom of the model, in the order of Rust's String comparison
DenomsSorted == <<"cap_a", "cap_b", "commitment_coin", "investment_coin">>

DenomRank(d) == CHOOSE i \in 1..Len(DenomsSorted) : DenomsSorted[i] = d

----------------------------------------------------------------------------
(* msg.rs: AssetExchange, and the batches the commands carry *)

AssetExchange(inv, com, cap_d, cap) ==
    [investment |-> inv, commitment_in_shares |-> com,
     capital_denom |-> cap_d, capital |-> cap, date |-> None]

\* the test's lines: everything flows to the contract, or from it
accept_line == AssetExchange(Some(1), Some(1), Some("cap_a"), Some(1))

send_line == AssetExchange(Some(-2), Some(-1), Some("cap_a"), Some(-2))

\* outweighs send_line
big_accept_line == AssetExchange(Some(3), Some(3), Some("cap_a"), Some(3))

\* capital with no denom named
no_denom_line == AssetExchange(None, None, None, Some(-1))

\* capital in a second denom
cap_b_line == AssetExchange(Some(-2), None, Some("cap_b"), Some(-1))

\* capital named in the denom of the investment
foreign_line == AssetExchange(None, Some(-1), Some("investment_coin"), Some(-1))

\* no capital at all
shares_line == AssetExchange(Some(-2), None, None, None)

\* a denom named without a capital delta
denom_only_line == AssetExchange(Some(1), None, Some("cap_b"), None)

\* accepted capital in the second denom
accept_b_line == AssetExchange(Some(1), Some(1), Some("cap_b"), Some(1))

AllExchanges ==
    {accept_line, send_line, big_accept_line, no_denom_line, cap_b_line,
     foreign_line, shares_line, denom_only_line, accept_b_line}

SeqsUpTo(S, n) == UNION {[1..k -> S] : k \in 0..n}

AssetExchangeAuthorization(exchanges, to, memo) ==
    [exchanges |-> exchanges, to |-> to, memo |-> memo]

\* <<to, memo>>
Destinations == {<<Some("lp_side_account"), Some("memo")>>, <<None, None>>}

\* every batch up to MaxLines lines
AllBatches ==
    {AssetExchangeAuthorization(x, d[1], d[2]) :
        x \in SeqsUpTo(AllExchanges, MaxLines), d \in Destinations}

accept_batch ==
    AssetExchangeAuthorization(<<accept_line>>, Some("lp_side_account"), Some("memo"))

\* differs from accept_batch in the memo only
plain_batch ==
    AssetExchangeAuthorization(<<accept_line>>, Some("lp_side_account"), None)

\* mixed signs, and a capital line that names no denom
send_batch == AssetExchangeAuthorization(<<send_line, no_denom_line>>, None, None)

\* the batches of the command sequences
Batches == {accept_batch, plain_batch, send_batch}

----------------------------------------------------------------------------
(* Results of a handler: Ok(Response) or Err, with the authorization        *)
(* singleton as the handler left it in its storage                         *)

Ok(messages, stored) ==
    [ok |-> TRUE, err |-> "", messages |-> messages, stored |-> stored]

Err(err, stored) ==
    [ok |-> FALSE, err |-> err, messages |-> <<>>, stored |-> stored]

NoMatch == "no previously authorized asset exchange matched"

----------------------------------------------------------------------------
(* contract.rs: remove_asset_exchange_authorization *)

\* PartialEq of AssetExchangeAuthorization: every field is compared
authorization_eq(a, b) ==
    a.exchanges = b.exchanges /\ a.to = b.to /\ a.memo = b.memo

RECURSIVE position_from(_, _, _)
position_from(list, authorization, i) ==
    IF i > Len(list) THEN 0
    ELSE IF authorization_eq(authorization, list[i]) THEN i
    ELSE position_from(list, authorization, i + 1)

\* Iterator::rposition: the last match instead of the first
rposition(list, authorization) ==
    IF \E i \in 1..Len(list) : authorization_eq(authorization, list[i])
    THEN CHOOSE i \in 1..Len(list) :
            /\ authorization_eq(authorization, list[i])
            /\ \A j \in (i + 1)..Len(list) : ~authorization_eq(authorization, list[j])
    ELSE 0

\* the first entry with the same exchange lines, whatever its to and memo
position_by_lines(list, authorization) ==
    IF \E i \in 1..Len(list) : list[i].exchanges = authorization.exchanges
    THEN CHOOSE i \in 1..Len(list) :
            /\ list[i].exchanges = authorization.exchanges
            /\ \A j \in 1..(i - 1) : list[j].exchanges /= authorization.exchanges
    ELSE 0

\* authorizations.iter().position(|e| &authorization == e): 0 stands for None
position(list, authorization) == position_from(list, authorization, 1)

\* Vec::retain in place of Vec::remove: every entry equal to list[index] goes
retain_others(list, index) == SelectSeq(list, LAMBDA e : e /= list[index])

\* Vec::truncate(index): the match goes, and every entry after it
truncate(list, index) == SubSeq(list, 1, index - 1)

\* Vec::remove(index)
remove(list, index) ==
    SubSeq(list, 1, index - 1) \o SubSeq(list, index + 1, Len(list))

\* a match removed only for a caller that needs one
remove_only_if_required(stored, authorization, authorization_required) ==
    IF ~authorization_required THEN Ok(<<>>, stored)
    ELSE IF ~is_some(stored) THEN Err(NoMatch, stored)
    ELSE LET index == position(unwrap(stored), authorization) IN
         IF index /= 0
         THEN Ok(<<>>, Some(remove(unwrap(stored), index)))
         ELSE Err(NoMatch, stored)

\* the flag ignored: a batch that is not pending is let through
remove_if_pending(stored, authorization, authorization_required) ==
    IF ~is_some(stored) THEN Ok(<<>>, stored)
    ELSE LET index == position(unwrap(stored), authorization) IN
         IF index /= 0
         THEN Ok(<<>>, Some(remove(unwrap(stored), index)))
         ELSE Ok(<<>>, stored)

remove_asset_exchange_authorization(stored, authorization, authorization_required) ==
    IF ~is_some(stored)
    THEN IF authorization_required THEN Err(NoMatch, stored) ELSE Ok(<<>>, stored)
    ELSE LET index == position(unwrap(stored), authorization) IN
         IF index /= 0
         THEN Ok(<<>>, Some(remove(unwrap(stored), index)))
         ELSE IF authorization_required THEN Err(NoMatch, stored) ELSE Ok(<<>>, stored)

----------------------------------------------------------------------------
(* contract.rs: HandleMsg::Recover *)

\* the current lp let through as well as the admin
recover_by_admin_or_lp(st, sender, lp) ==
    IF sender /= st.admin /\ sender /= st.lp
    THEN [ok |-> FALSE, err |-> "only admin can recover subscription", state |-> st]
    ELSE [ok |-> TRUE, err |-> "", state |-> [st EXCEPT !.lp = lp]]

\* the supplied address stored as the admin instead of the lp
recover_admin(st, sender, lp) ==
    IF sender /= st.admin
    THEN [ok |-> FALSE, err |-> "only admin can recover subscription", state |-> st]
    ELSE [ok |-> TRUE, err |-> "", state |-> [st EXCEPT !.admin = lp]]

\* the attribute requirement dropped along with the old lp
recover_dropping_attribute(st, sender, lp) ==
    IF sender /= st.admin
    THEN [ok |-> FALSE, err |-> "only admin can recover subscription", state |-> st]
    ELSE [ok |-> TRUE, err |-> "",
          state |-> [st EXCEPT !.lp = lp, !.required_capital_attribute = None]]

recover(st, sender, lp) ==
    IF sender /= st.admin
    THEN [ok |-> FALSE, err |-> "only admin can recover subscription", state |-> st]
    ELSE [ok |-> TRUE, err |-> "", state |-> [st EXCEPT !.lp = lp]]

----------------------------------------------------------------------------
(* contract.rs: HandleMsg::AuthorizeAssetExchange *)

Contains(list, v) == \E i \in 1..Len(list) : list[i] = v

\* the first exchange line checked, the others not
validate_first_exchange(st, exchanges, i) ==
    IF exchanges = <<>> THEN ""
    ELSE LET exchange == exchanges[1] IN
         IF is_some(exchange.capital) /\ is_some(exchange.capital_denom)
               /\ ~Contains(st.like_capital_denoms, unwrap(exchange.capital_denom))
         THEN "unsupported capital denom"
         ELSE IF is_some(exchange.capital) /\ ~is_some(exchange.capital_denom)
                    /\ Len(st.like_capital_denoms) > 1
         THEN "specified capital denom required"
         ELSE ""

\* the error of the first exchange line that fails the capital denom check
RECURSIVE validate_exchanges(_, _, _)
validate_exchanges(st, exchanges, i) ==
    IF i > Len(exchanges) THEN ""
    ELSE LET exchange == exchanges[i] IN
         IF is_some(exchange.capital) /\ is_some(exchange.capital_denom)
               /\ ~Contains(st.like_capital_denoms, unwrap(exchange.capital_denom))
         THEN "unsupported capital denom"
         ELSE IF is_some(exchange.capital) /\ ~is_some(exchange.capital_denom)
                    /\ Len(st.like_capital_denoms) > 1
         THEN "specified capital denom required"
         ELSE validate_exchanges(st, exchanges, i + 1)

\* may_load()?.unwrap_or_default()
unwrap_or_default(stored) == IF is_some(stored) THEN unwrap(stored) ELSE <<>>

\* an authorization already pending is not stored twice
push_unless_pending(list, authorization) ==
    IF Contains(list, authorization) THEN list ELSE Append(list, authorization)

\* authorizations.push(..)
push(list, authorization) == Append(list, authorization)

\* the caller compared with the lp of the instantiation, not the stored one
authorize_by_first_lp(st, stored, sender, exchanges, to, memo) ==
    IF sender /= "lp"
    THEN Err("only the lp can authorize asset exchanges", stored)
    ELSE LET invalid == validate_exchanges(st, exchanges, 1) IN
         IF invalid /= "" THEN Err(invalid, stored)
         ELSE Ok(<<>>, Some(push(unwrap_or_default(stored),
                                  AssetExchangeAuthorization(exchanges, to, memo))))

authorize_asset_exchange(st, stored, sender, exchanges, to, memo) ==
    IF sender /= st.lp
    THEN Err("only the lp can authorize asset exchanges", stored)
    ELSE LET invalid == validate_exchanges(st, exchanges, 1) IN
         IF invalid /= "" THEN Err(invalid, stored)
         ELSE Ok(<<>>, Some(push(unwrap_or_default(stored),
                                  AssetExchangeAuthorization(exchanges, to, memo))))

----------------------------------------------------------------------------
(* contract.rs: HandleMsg::CancelAssetExchangeAuthorization *)

\* the admin let through as in CompleteAssetExchange
cancel_by_lp_or_admin(st, stored, sender, exchanges, to, memo) ==
    IF sender /= st.lp /\ sender /= st.admin
    THEN Err("only the lp can cancel asset exchange authorization", stored)
    ELSE remove_asset_exchange_authorization(
             stored, AssetExchangeAuthorization(exchanges, to, memo), TRUE)

cancel_asset_exchange_authorization(st, stored, sender, exchanges, to, memo) ==
    IF sender /= st.lp
    THEN Err("only the lp can cancel asset exchange authorization", stored)
    ELSE remove_asset_exchange_authorization(
             stored, AssetExchangeAuthorization(exchanges, to, memo), TRUE)

----------------------------------------------------------------------------
(* contract.rs: HandleMsg::CompleteAssetExchange *)

coin(amount, denom) == [denom |-> denom, amount |-> amount]

\* i64::unsigned_abs
unsigned_abs(n) == IF n < 0 THEN -n ELSE n

RECURSIVE total_investment(_)
total_investment(exchanges) ==
    IF exchanges = <<>> THEN 0
    ELSE (IF is_some(Head(exchanges).investment)
          THEN unwrap(Head(exchanges).investment) ELSE 0)
         + total_investment(Tail(exchanges))

\* only the negative deltas summed
RECURSIVE negative_commitment(_)
negative_commitment(exchanges) ==
    IF exchanges = <<>> THEN 0
    ELSE (IF is_some(Head(exchanges).commitment_in_shares)
             /\ unwrap(Head(exchanges).commitment_in_shares) < 0
          THEN unwrap(Head(exchanges).commitment_in_shares) ELSE 0)
         + negative_commitment(Tail(exchanges))

RECURSIVE total_commitment(_)
total_commitment(exchanges) ==
    IF exchanges = <<>> THEN 0
    ELSE (IF is_some(Head(exchanges).commitment_in_shares)
          THEN unwrap(Head(exchanges).commitment_in_shares) ELSE 0)
         + total_commitment(Tail(exchanges))

\* the first accepted denom taken for a line that names none
capital_denom_or_first(st, exchange) ==
    IF is_some(exchange.capital_denom) THEN exchange.capital_denom
    ELSE IF Len(st.like_capital_denoms) >= 1 THEN Some(st.like_capital_denoms[1])
    ELSE None

\* the denom a line's capital is booked under; None when it cannot be told
capital_denom_of(st, exchange) ==
    IF is_some(exchange.capital_denom) THEN exchange.capital_denom
    ELSE IF Len(st.like_capital_denoms) = 1 THEN Some(st.like_capital_denoms[1])
    ELSE None

\* *acc.entry(denom).or_insert(0) += capital_value
entry_add(acc, denom, capital_value) ==
    [d \in DOMAIN acc \cup {denom} |->
        (IF d \in DOMAIN acc THEN acc[d] ELSE 0) + (IF d = denom THEN capital_value ELSE 0)]

\* the try_fold over the exchanges: Some(map from denom to sum), or None for
\* Err("no capital denom")
RECURSIVE total_capital_per_denom(_, _, _)
total_capital_per_denom(st, exchanges, acc) ==
    IF exchanges = <<>> THEN Some(acc)
    ELSE LET exchange == Head(exchanges) IN
         IF ~is_some(exchange.capital)
         THEN total_capital_per_denom(st, Tail(exchanges), acc)
         ELSE LET denom == capital_denom_of(st, exchange) IN
              IF ~is_some(denom) THEN None
              ELSE total_capital_per_denom(st, Tail(exchanges),
                       entry_add(acc, unwrap(denom), unwrap(exchange.capital)))

\* the orders in which HashMap::into_iter may yield the keys of the map
IterOrders(map) ==
    {order \in [1..Cardinality(DOMAIN map) -> DOMAIN map] :
        \A i, j \in DOMAIN order : order[i] = order[j] => i = j}

transfer_marker_coins(amount, denom, to, from) ==
    [type |-> "transfer_marker_coins", coin |-> coin(amount, denom), to |-> to, from |-> from]

\* the required attribute ignored: every negative sum pushed to funds
RECURSIVE capital_legs_in_funds(_, _, _, _)
capital_legs_in_funds(st, map, order, acc) ==
    IF order = <<>> THEN acc
    ELSE LET capital_denom == Head(order)
             capital_sum == map[capital_denom]
             next == IF capital_sum >= 0 THEN acc
                     ELSE [acc EXCEPT !.funds =
                              Append(@, coin(unsigned_abs(capital_sum), capital_denom))]
         IN capital_legs_in_funds(st, map, Tail(order), next)

\* the try_fold over the map: the coins pushed to funds and the marker
\* transfers added to the response, in iteration order
RECURSIVE capital_legs(_, _, _, _)
capital_legs(st, map, order, acc) ==
    IF order = <<>> THEN acc
    ELSE LET capital_denom == Head(order)
             capital_sum == map[capital_denom]
             next == IF capital_sum >= 0 THEN acc
                     ELSE IF ~is_some(st.required_capital_attribute)
                     THEN [acc EXCEPT !.funds =
                              Append(@, coin(unsigned_abs(capital_sum), capital_denom))]
                     ELSE [acc EXCEPT !.messages =
                              Append(@, transfer_marker_coins(unsigned_abs(capital_sum),
                                            capital_denom, st.raise, MOCK_CONTRACT_ADDR))]
         IN capital_legs(st, map, Tail(order), next)

\* funds.sort_by_key(|coin| coin.denom.clone()): a stable sort
RECURSIVE insert_by_key(_, _)
insert_by_key(sorted, c) ==
    IF sorted = <<>> THEN <<c>>
    ELSE IF DenomRank(c.denom) < DenomRank(Head(sorted).denom)
    THEN <<c>> \o sorted
    ELSE <<Head(sorted)>> \o insert_by_key(Tail(sorted), c)

\* the funds left in the order they were pushed
unsorted(funds) == funds

RECURSIVE sort_by_key(_)
sort_by_key(funds) ==
    IF funds = <<>> THEN <<>>
    ELSE insert_by_key(sort_by_key(SubSeq(funds, 1, Len(funds) - 1)), funds[Len(funds)])

wasm_execute(contract_addr, msg, funds) ==
    [type |-> "wasm_execute", contract_addr |-> contract_addr, msg |-> msg, funds |-> funds]

\* the memo not passed on
RaiseCompleteWithoutMemo(exchanges, to, memo) ==
    [complete_asset_exchange |-> [exchanges |-> exchanges, to |-> to, memo |-> None]]

\* raise_msg: RaiseExecuteMsg::CompleteAssetExchange
RaiseCompleteAssetExchange(exchanges, to, memo) ==
    [complete_asset_exchange |-> [exchanges |-> exchanges, to |-> to, memo |-> memo]]

\* a coin pushed for every sum that is not zero, whatever its sign
share_funds_any_sign(st, exchanges) ==
    (IF total_investment(exchanges) /= 0
     THEN <<coin(unsigned_abs(total_investment(exchanges)), st.investment_denom)>>
     ELSE <<>>)
    \o
    (IF total_commitment(exchanges) /= 0
     THEN <<coin(unsigned_abs(total_commitment(exchanges)), st.commitment_denom)>>
     ELSE <<>>)

\* the coins pushed for the investment and the commitment sums
share_funds(st, exchanges) ==
    (IF total_investment(exchanges) < 0
     THEN <<coin(unsigned_abs(total_investment(exchanges)), st.investment_denom)>>
     ELSE <<>>)
    \o
    (IF total_commitment(exchanges) < 0
     THEN <<coin(unsigned_abs(total_commitment(exchanges)), st.commitment_denom)>>
     ELSE <<>>)

\* the caller check left out
complete_caller_anyone(st, sender) == TRUE

\* info.sender != state.lp && info.sender != state.admin, negated
complete_caller_allowed(st, sender) == sender = st.lp \/ sender = st.admin

\* the flag never set
authorization_required_never(st, sender) == FALSE

\* the flag always set
authorization_required_always(st, sender) == TRUE

\* the authorization_required argument: info.sender == state.admin
authorization_required(st, sender) == sender = st.admin

\* the handler, for one of the IterOrders of the capital map
complete_asset_exchange(st, stored, sender, exchanges, to, memo, order) ==
    IF ~complete_caller_allowed(st, sender)
    THEN Err("only the lp or admin can complete asset exchange", stored)
    ELSE LET removed == remove_asset_exchange_authorization(
                            stored, AssetExchangeAuthorization(exchanges, to, memo),
                            authorization_required(st, sender))
         IN
         IF ~removed.ok THEN removed
         ELSE LET capital == total_capital_per_denom(st, exchanges, <<>>) IN
              IF ~is_some(capital) THEN Err("no capital denom", removed.stored)
              ELSE LET legs == capital_legs(st, unwrap(capital), order,
                                   [funds |-> share_funds(st, exchanges),
                                    messages |-> <<>>])
                   IN Ok(Append(legs.messages,
                                wasm_execute(st.raise,
                                    RaiseCompleteAssetExchange(exchanges, to, memo),
                                    sort_by_key(legs.funds))),
                         removed.stored)

----------------------------------------------------------------------------
(* contract.rs: HandleMsg::IssueWithdrawal *)

\* the caller check with the admin let through
withdrawal_caller_lp_or_admin(st, sender) == sender = st.lp \/ sender = st.admin

\* info.sender != state.lp, negated
withdrawal_caller_allowed(st, sender) == sender = st.lp

\* the first accepted denom taken whenever the denom is omitted, and any
\* denom that is given
first_capital_denom(st, capital_denom) ==
    IF is_some(capital_denom)
    THEN [err |-> "", denom |-> capital_denom]
    ELSE IF Len(st.like_capital_denoms) >= 1
    THEN [err |-> "", denom |-> Some(st.like_capital_denoms[1])]
    ELSE [err |-> "no capital denom", denom |-> None]

\* the capital_denom binding: the denom given if it is accepted, the only
\* accepted denom if none is given
resolve_capital_denom(st, capital_denom) ==
    IF is_some(capital_denom)
    THEN IF Contains(st.like_capital_denoms, unwrap(capital_denom))
         THEN [err |-> "", denom |-> capital_denom]
         ELSE [err |-> "unsupported capital denom", denom |-> None]
    ELSE IF Len(st.like_capital_denoms) = 1
    THEN [err |-> "", denom |-> Some(st.like_capital_denoms[1])]
    ELSE [err |-> "no capital denom", denom |-> None]

\* cosmwasm_std::coins
coins(amount, denom) == <<coin(amount, denom)>>

\* the coins left out of the message
bank_send_nothing(to_address, amount) ==
    [type |-> "bank_send", to_address |-> to_address, amount |-> <<>>]

\* BankMsg::Send
bank_send(to_address, amount) ==
    [type |-> "bank_send", to_address |-> to_address, amount |-> amount]

\* the names of the attributes the attribute module returns for the address
query_attributes(reg, address) ==
    IF address \in DOMAIN reg THEN reg[address] ELSE {}

\* any attribute at all accepted
has_any_attribute(reg, address, required_capital_attribute) ==
    query_attributes(reg, address) /= {}

\* query_attributes(deps, &to).any(|attr| attr.name == required_capital_attribute)
has_attribute(reg, address, required_capital_attribute) ==
    \E name \in query_attributes(reg, address) : name = required_capital_attribute

\* the error of contract.rs:231-236, the formatted address and attribute
\* name left out
MissingRequiredAttribute == "does not have required attribute"

\* [ok, err, messages] of the handler. provwasm_std::transfer_marker_coins
\* returns Err for an amount of zero, which the ? passes on
issue_withdrawal(st, reg, sender, capital_denom, to, amount) ==
    LET failed(err) == [ok |-> FALSE, err |-> err, messages |-> <<>>]
        response(message) == [ok |-> TRUE, err |-> "", messages |-> <<message>>]
        resolved == resolve_capital_denom(st, capital_denom)
    IN
    IF ~withdrawal_caller_allowed(st, sender) THEN failed("only the lp can withdraw")
    ELSE IF ~is_some(resolved.denom) THEN failed(resolved.err)
    ELSE IF ~is_some(st.required_capital_attribute)
    THEN response(bank_send(to, coins(amount, unwrap(resolved.denom))))
    ELSE IF ~has_attribute(reg, to, unwrap(st.required_capital_attribute))
    THEN failed(MissingRequiredAttribute)
    ELSE IF amount = 0 THEN failed("transfer amount must be > 0")
    ELSE response(transfer_marker_coins(amount, unwrap(resolved.denom), to,
                                        MOCK_CONTRACT_ADDR))

----------------------------------------------------------------------------
(* History of the successful commands, per batch *)

Count(f, b) == IF b \in DOMAIN f THEN f[b] ELSE 0

Bump(f, b) == [x \in DOMAIN f \cup {b} |-> Count(f, x) + (IF x = b THEN 1 ELSE 0)]

RECURSIVE SetSum(_, _)
SetSum(f, S) ==
    IF S = {} THEN 0
    ELSE LET x == CHOOSE y \in S : TRUE IN f[x] + SetSum(f, S \ {x})

Total(f) == SetSum(f, DOMAIN f)

\* the number of entries of the pending list equal to b
RECURSIVE Occurrences(_, _)
Occurrences(list, b) ==
    IF list = <<>> THEN 0
    ELSE (IF Head(list) = b THEN 1 ELSE 0) + Occurrences(Tail(list), b)

Pending == unwrap_or_default(authorizations)

----------------------------------------------------------------------------
(* The stored State *)

NoBatch == AssetExchangeAuthorization(<<>>, None, None)

Command(op, sender, batch, lp, result) ==
    [op |-> op, sender |-> sender, batch |-> batch, lp |-> lp,
     ok |-> result.ok, err |-> result.err, messages |-> result.messages]

States ==
    {[admin |-> "admin", lp |-> "lp", raise |-> "raise_1",
      commitment_denom |-> "commitment_coin", investment_denom |-> "investment_coin",
      like_capital_denoms |-> denoms, capital_per_share |-> 100,
      required_capital_attribute |-> attribute] :
        denoms \in {<<"cap_a">>, <<"cap_a", "cap_b">>},
        attribute \in {None, Some("capital.test")}}

Init ==
    /\ state \in States
    /\ authorizations = None
    /\ written = None
    /\ last = Command("instantiate", "raise_1", NoBatch, "", Ok(<<>>, None))
    /\ tally = None
    /\ registry = NoAttributes

----------------------------------------------------------------------------
(* The commands. The host keeps what a handler saved only when it returns Ok *)

Recover(sender, lp) ==
    LET result == recover(state, sender, lp) IN
    /\ state' = result.state
    /\ last' = Command("recover", sender, NoBatch, lp,
                       [ok |-> result.ok, err |-> result.err, messages |-> <<>>])
    /\ written' = authorizations
    /\ UNCHANGED <<authorizations, tally, registry>>

\* the tally after a command on batch b that succeeded
Tallied(field, b) ==
    IF is_some(tally) THEN Some([unwrap(tally) EXCEPT ![field] = Bump(@, b)]) ELSE tally

AuthorizeAllowed ==
    /\ Len(Pending) < MaxPending
    /\ is_some(tally) => Total(unwrap(tally).authorized) < MaxAuthorize

AuthorizeAssetExchange(sender, b) ==
    LET result == authorize_asset_exchange(state, authorizations, sender,
                                           b.exchanges, b.to, b.memo)
    IN
    /\ result.ok => AuthorizeAllowed
    /\ authorizations' = IF result.ok THEN result.stored ELSE authorizations
    /\ written' = result.stored
    /\ last' = Command("authorize", sender, b, "", result)
    /\ tally' = IF result.ok THEN Tallied("authorized", b) ELSE tally
    /\ UNCHANGED <<state, registry>>

CancelAssetExchangeAuthorization(sender, b) ==
    LET result == cancel_asset_exchange_authorization(state, authorizations, sender,
                                                      b.exchanges, b.to, b.memo)
    IN
    /\ authorizations' = IF result.ok THEN result.stored ELSE authorizations
    /\ written' = result.stored
    /\ last' = Command("cancel", sender, b, "", result)
    /\ tally' = IF result.ok THEN Tallied("cancelled", b) ELSE tally
    /\ UNCHANGED <<state, registry>>

\* what the handler saved kept although it returned Err
CompleteAssetExchangeKeepingWrites(sender, b) ==
    LET capital == total_capital_per_denom(state, b.exchanges, <<>>)
        orders == IF is_some(capital) THEN IterOrders(unwrap(capital)) ELSE {<<>>}
    IN
    \E order \in orders :
        LET result == complete_asset_exchange(state, authorizations, sender,
                                              b.exchanges, b.to, b.memo, order)
        IN
        /\ authorizations' = result.stored
        /\ written' = result.stored
        /\ last' = Command("complete", sender, b, "", result)
        /\ UNCHANGED <<state, tally, registry>>

CompleteAssetExchange(sender, b) ==
    LET capital == total_capital_per_denom(state, b.exchanges, <<>>)
        orders == IF is_some(capital) THEN IterOrders(unwrap(capital)) ELSE {<<>>}
    IN
    \E order \in orders :
        LET result == complete_asset_exchange(state, authorizations, sender,
                                              b.exchanges, b.to, b.memo, order)
            matched == result.ok /\ result.stored /= authorizations
        IN
        /\ authorizations' = IF result.ok THEN result.stored ELSE authorizations
        /\ written' = result.stored
        /\ last' = Command("complete", sender, b, "", result)
        /\ tally' = IF ~result.ok THEN tally
                    ELSE IF sender = state.admin THEN Tallied("completed_by_admin", b)
                    ELSE IF matched THEN Tallied("completed_by_lp", b)
                    ELSE tally
        /\ UNCHANGED <<state, registry>>

Next ==
    \/ \E sender \in Senders, lp \in RecoverTargets : Recover(sender, lp)
    \/ \E sender \in Senders, b \in Batches : AuthorizeAssetExchange(sender, b)
    \/ \E sender \in Senders, b \in Batches : CancelAssetExchangeAuthorization(sender, b)
    \/ \E sender \in Senders, b \in Batches : CompleteAssetExchange(sender, b)

Spec == Init /\ [][Next]_vars

----------------------------------------------------------------------------
(* The handlers applied to every batch of AllBatches: one command, or      *)
(* authorizations of one batch followed by one other command for it        *)

ReplayBatches ==
    IF last.op = "instantiate" THEN AllBatches
    ELSE IF last.op = "authorize" /\ last.ok THEN {last.batch}
    ELSE {}

NextExchange ==
    \/ \E sender \in Senders, b \in ReplayBatches : AuthorizeAssetExchange(sender, b)
    \/ \E sender \in Senders, b \in ReplayBatches : CancelAssetExchangeAuthorization(sender, b)
    \/ \E sender \in Senders, b \in ReplayBatches : CompleteAssetExchange(sender, b)

InitExchange ==
    /\ state \in States
    /\ authorizations = None
    /\ written = None
    /\ last = Command("instantiate", "raise_1", NoBatch, "", Ok(<<>>, None))
    /\ tally = None
    /\ registry \in RaiseRegistries

SpecExchange == InitExchange /\ [][NextExchange]_vars

----------------------------------------------------------------------------
(* Withdrawals, with every answer of the attribute module and with a State *)
(* that accepts no capital denom, one or two                               *)

WithdrawalCommand(sender, capital_denom, to, amount, result) ==
    [op |-> "withdraw", sender |-> sender, batch |-> NoBatch, lp |-> "",
     ok |-> result.ok, err |-> result.err, messages |-> result.messages,
     capital_denom |-> capital_denom, to |-> to, amount |-> amount]

WithdrawalStates ==
    States \cup {[st EXCEPT !.like_capital_denoms = <<>>] : st \in States}

WithdrawalDenoms == {None, Some("cap_a"), Some("cap_b")}

\* "lp" is an account the attribute module does not know
WithdrawalTargets == Accounts \cup {"lp"}

WithdrawalAmounts == {0, 10}

InitWithdrawal ==
    /\ state \in WithdrawalStates
    /\ authorizations = None
    /\ written = None
    /\ last = Command("instantiate", "raise_1", NoBatch, "", Ok(<<>>, None))
    /\ tally = None
    /\ registry \in Registries

\* a successful withdrawal recorded in the State under a sequence number, as
\* the State of state.rs records it
IssueWithdrawalRecorded(sender, capital_denom, to, amount) ==
    LET result == issue_withdrawal(state, registry, sender, capital_denom, to, amount)
        recorded == [field \in DOMAIN state \cup {"sequence", "withdrawals"} |->
                        IF field = "sequence" THEN 1
                        ELSE IF field = "withdrawals"
                        THEN {[sequence |-> 1, to |-> to, amount |-> amount]}
                        ELSE state[field]]
    IN
    /\ last' = WithdrawalCommand(sender, capital_denom, to, amount, result)
    /\ written' = authorizations
    /\ state' = IF result.ok THEN recorded ELSE state
    /\ UNCHANGED <<authorizations, tally, registry>>

IssueWithdrawal(sender, capital_denom, to, amount) ==
    LET result == issue_withdrawal(state, registry, sender, capital_denom, to, amount) IN
    /\ last' = WithdrawalCommand(sender, capital_denom, to, amount, result)
    /\ written' = authorizations
    /\ UNCHANGED <<state, authorizations, tally, registry>>

NextWithdrawal ==
    \/ \E sender \in Senders, lp \in RecoverTargets : Recover(sender, lp)
    \/ \E sender \in Senders, capital_denom \in WithdrawalDenoms,
          to \in WithdrawalTargets, amount \in WithdrawalAmounts :
            IssueWithdrawal(sender, capital_denom, to, amount)

SpecWithdrawal == InitWithdrawal /\ [][NextWithdrawal]_vars

----------------------------------------------------------------------------
(* execute: the five commands in any order *)

\* lp_side_account holds the required attribute, or nobody holds any
ExecuteRegistries ==
    {NoAttributes, [NoAttributes EXCEPT !["lp_side_account"] = {"capital.test"}]}

InitExecute ==
    /\ state \in States
    /\ authorizations = None
    /\ written = None
    /\ last = Command("instantiate", "raise_1", NoBatch, "", Ok(<<>>, None))
    /\ tally = None
    /\ registry \in ExecuteRegistries

ExecuteDenoms == {None, Some("cap_a")}

ExecuteTargets == {"lp_side_account", "raise_1"}

NextExecute ==
    \/ \E sender \in Senders, lp \in RecoverTargets : Recover(sender, lp)
    \/ \E sender \in Senders, b \in Batches :
          Len(Pending) < MaxAuthorize /\ AuthorizeAssetExchange(sender, b)
    \/ \E sender \in Senders, b \in Batches : CancelAssetExchangeAuthorization(sender, b)
    \/ \E sender \in Senders, b \in Batches : CompleteAssetExchange(sender, b)
    \/ \E sender \in Senders, capital_denom \in ExecuteDenoms, to \in ExecuteTargets :
          IssueWithdrawal(sender, capital_denom, to, 10)

SpecExecute == InitExecute /\ [][NextExecute]_vars

----------------------------------------------------------------------------
(* Authorizations that pass AuthorizeAssetExchange and fail in             *)
(* CompleteAssetExchange: a State that accepts no capital denom lets a     *)
(* line with capital and no denom be authorized                            *)

unnamed_batch == AssetExchangeAuthorization(<<no_denom_line>>, None, None)

RejectedBatches == {unnamed_batch, accept_batch}

InitRejected ==
    /\ state \in WithdrawalStates
    /\ authorizations = None
    /\ written = None
    /\ last = Command("instantiate", "raise_1", NoBatch, "", Ok(<<>>, None))
    /\ tally = None
    /\ registry = NoAttributes

NextRejected ==
    \/ \E sender \in Senders, b \in RejectedBatches : AuthorizeAssetExchange(sender, b)
    \/ \E sender \in Senders, b \in RejectedBatches : CancelAssetExchangeAuthorization(sender, b)
    \/ \E sender \in Senders, b \in RejectedBatches : CompleteAssetExchange(sender, b)

SpecRejected == InitRejected /\ [][NextRejected]_vars

----------------------------------------------------------------------------
(* Batches that differ from one another in a single field, a single line   *)
(* or the order of the lines, matched against one another                  *)

\* msg.rs: ExchangeDate
Due(time) == <<"due", time>>

Available(time) == <<"avl", time>>

dated_line == [accept_line EXCEPT !.date = Some(Due(1))]

\* dated_line with one field changed
NearLines ==
    {dated_line,
     [dated_line EXCEPT !.investment = Some(2)],
     [dated_line EXCEPT !.commitment_in_shares = Some(2)],
     [dated_line EXCEPT !.capital_denom = Some("cap_b")],
     [dated_line EXCEPT !.capital = Some(2)],
     [dated_line EXCEPT !.date = None],
     [dated_line EXCEPT !.date = Some(Available(1))],
     [dated_line EXCEPT !.date = Some(Due(2))]}

dated_batch ==
    AssetExchangeAuthorization(<<dated_line, send_line>>,
                               Some("lp_side_account"), Some("memo"))

\* dated_batch with one line changed, the lines permuted, or another to or memo
NearBatches ==
    {[dated_batch EXCEPT !.exchanges[1] = line] : line \in NearLines}
    \cup {[dated_batch EXCEPT !.exchanges = <<send_line, dated_line>>],
          [dated_batch EXCEPT !.memo = None],
          [dated_batch EXCEPT !.memo = Some("other memo")],
          [dated_batch EXCEPT !.to = None],
          [dated_batch EXCEPT !.to = Some("raise_1")]}

InitMatching ==
    /\ state \in {st \in States : Len(st.like_capital_denoms) = 2}
    /\ authorizations = None
    /\ written = None
    /\ last = Command("instantiate", "raise_1", NoBatch, "", Ok(<<>>, None))
    /\ tally = None
    /\ registry = NoAttributes

\* the callers that pass a caller check
MatchingSenders == {"lp", "admin"}

NextMatching ==
    \/ \E b \in NearBatches :
          Len(Pending) < MaxMatching /\ AuthorizeAssetExchange("lp", b)
    \/ \E b \in NearBatches : CancelAssetExchangeAuthorization("lp", b)
    \/ \E sender \in MatchingSenders, b \in NearBatches : CompleteAssetExchange(sender, b)

SpecMatching == InitMatching /\ [][NextMatching]_vars

----------------------------------------------------------------------------
(* migrate.rs: the stored StateV2_0_0 replaced by the State of migrate.rs  *)

StateV2_0_0 ==
    {[admin |-> admin, lp |-> lp, raise |-> "raise_1",
      commitment_denom |-> "commitment", investment_denom |-> "investment",
      capital_denom |-> "stable_coin", capital_per_share |-> capital_per_share] :
        admin \in {"marketpalace", "admin"},
        lp \in {"lp", "raise_1"},
        capital_per_share \in {1, 100}}

CapitalDenomRequirement(capital_denom, required_attribute) ==
    [capital_denom |-> capital_denom, required_attribute |-> required_attribute]

MigrateMsgs ==
    {[like_capital_denoms |-> denoms, required_capital_attributes |-> requirements] :
        denoms \in {<<>>, <<"stable_coin">>, <<"new_denom">>, <<"cap_a", "cap_b">>},
        requirements \in {<<>>,
                          <<CapitalDenomRequirement("new_denom", "attr")>>,
                          <<CapitalDenomRequirement("cap_a", "attr"),
                            CapitalDenomRequirement("cap_b", "attr")>>}}

\* the old capital_denom kept as the only accepted denom
migrate_keeping_capital_denom(stored, migrate_msg) ==
    IF "capital_denom" \notin DOMAIN stored
    THEN [ok |-> FALSE, err |-> "missing field capital_denom", state |-> stored]
    ELSE [ok |-> TRUE, err |-> "",
          state |-> [admin |-> stored.admin,
                     lp |-> stored.lp,
                     raise |-> stored.raise,
                     commitment_denom |-> stored.commitment_denom,
                     investment_denom |-> stored.investment_denom,
                     like_capital_denoms |-> <<stored.capital_denom>>,
                     capital_per_share |-> stored.capital_per_share,
                     required_capital_attributes |->
                         migrate_msg.required_capital_attributes]]

\* [ok, err, state]: load()? fails on a stored value that is no StateV2_0_0,
\* which is one without the field capital_denom
migrate(stored, migrate_msg) ==
    IF "capital_denom" \notin DOMAIN stored
    THEN [ok |-> FALSE, err |-> "missing field capital_denom", state |-> stored]
    ELSE [ok |-> TRUE, err |-> "",
          state |-> [admin |-> stored.admin,
                     lp |-> stored.lp,
                     raise |-> stored.raise,
                     commitment_denom |-> stored.commitment_denom,
                     investment_denom |-> stored.investment_denom,
                     like_capital_denoms |-> migrate_msg.like_capital_denoms,
                     capital_per_share |-> stored.capital_per_share,
                     required_capital_attributes |->
                         migrate_msg.required_capital_attributes]]

MigrateCommand(migrate_msg, result) ==
    [op |-> "migrate", sender |-> "", batch |-> NoBatch, lp |-> "",
     ok |-> result.ok, err |-> result.err, messages |-> <<>>,
     migrate_msg |-> migrate_msg]

InitMigrate ==
    /\ state \in StateV2_0_0
    /\ authorizations = None
    /\ written = None
    /\ last = Command("instantiate", "raise_1", NoBatch, "", Ok(<<>>, None))
    /\ tally = None
    /\ registry = NoAttributes

\* the authorization singleton removed by the migration
MigrateClearingAuthorizations(migrate_msg) ==
    LET result == migrate(state, migrate_msg) IN
    /\ state' = result.state
    /\ last' = MigrateCommand(migrate_msg, result)
    /\ written' = None
    /\ authorizations' = None
    /\ UNCHANGED <<tally, registry>>

Migrate(migrate_msg) ==
    LET result == migrate(state, migrate_msg) IN
    /\ state' = result.state
    /\ last' = MigrateCommand(migrate_msg, result)
    /\ written' = authorizations
    /\ UNCHANGED <<authorizations, tally, registry>>

NextMigrate == \E migrate_msg \in MigrateMsgs : Migrate(migrate_msg)

SpecMigrate == InitMigrate /\ [][NextMigrate]_vars

----------------------------------------------------------------------------
(* A migration with authorizations pending, granted under the old          *)
(* capital_denom                                                           *)

stable_line == AssetExchange(Some(1), Some(1), Some("stable_coin"), Some(1))

stable_batch == AssetExchangeAuthorization(<<stable_line>>, None, None)

MigratedBatches == {stable_batch, accept_batch}

\* the authorization singleton at the time of the migration
MigratedAuthorizations ==
    {None, Some(<<>>), Some(<<stable_batch>>), Some(<<stable_batch, accept_batch>>),
     Some(<<accept_batch, stable_batch, stable_batch>>)}

InitMigratePending ==
    /\ state \in StateV2_0_0
    /\ authorizations \in MigratedAuthorizations
    /\ written = authorizations
    /\ last = Command("instantiate", "raise_1", NoBatch, "", Ok(<<>>, None))
    /\ tally = None
    /\ registry = NoAttributes

NextMigratePending ==
    \/ \E migrate_msg \in MigrateMsgs : Migrate(migrate_msg)
    \/ \E sender \in Senders, b \in MigratedBatches :
          CancelAssetExchangeAuthorization(sender, b)

SpecMigratePending == InitMigratePending /\ [][NextMigratePending]_vars

----------------------------------------------------------------------------
(* state.rs and instantiate.rs: the State with a sequence and transaction  *)
(* sets. Here the variable state is an Option: None until instantiate has  *)
(* saved a State                                                           *)

\* amount % capital_per_share == 0, which says a remainder of zero is uneven
zero_remainder_uneven(st, amount) == amount % st.capital_per_share = 0

\* State::not_evenly_divisble; the caller keeps capital_per_share = 0, for
\* which the remainder panics, away from it
not_evenly_divisble(st, amount) == amount % st.capital_per_share > 0

\* State::capital_to_shares
capital_to_shares(st, amount) == amount \div st.capital_per_share

InstantiateMsgs ==
    {[recovery_admin |-> "admin", lp |-> lp, capital_denom |-> "stable_coin",
      capital_per_share |-> capital_per_share,
      min_commitment |-> min_commitment, max_commitment |-> max_commitment] :
        lp \in {"lp", "admin"},
        capital_per_share \in {0, 1, 100},
        min_commitment \in {0, 10000, 10001},
        max_commitment \in {50000, 50001, 100000}}

\* the State is saved without the max commitment being checked
instantiate_checking_min(sender, msg) ==
    LET st == [raise |-> sender,
               status |-> "Draft",
               recovery_admin |-> msg.recovery_admin,
               lp |-> msg.lp,
               capital_denom |-> msg.capital_denom,
               capital_per_share |-> msg.capital_per_share,
               min_commitment |-> msg.min_commitment,
               max_commitment |-> msg.max_commitment,
               sequence |-> 0,
               active_capital_call |-> None,
               closed_capital_calls |-> {},
               cancelled_capital_calls |-> {},
               redemptions |-> {},
               distributions |-> {},
               withdrawals |-> {}]
    IN
    IF st.capital_per_share = 0
    THEN [ok |-> FALSE, err |-> "panic", saved |-> None]
    ELSE IF not_evenly_divisble(st, msg.min_commitment)
    THEN [ok |-> FALSE, saved |-> None,
          err |-> "min commitment must be evenly divisible by capital per share"]
    ELSE [ok |-> TRUE, err |-> "", saved |-> Some(st)]

\* [ok, err, saved]: saved is what config(deps.storage).save was given, if
\* it was reached. The remainder by a capital_per_share of 0 panics
instantiate(sender, msg) ==
    LET st == [raise |-> sender,
               status |-> "Draft",
               recovery_admin |-> msg.recovery_admin,
               lp |-> msg.lp,
               capital_denom |-> msg.capital_denom,
               capital_per_share |-> msg.capital_per_share,
               min_commitment |-> msg.min_commitment,
               max_commitment |-> msg.max_commitment,
               sequence |-> 0,
               active_capital_call |-> None,
               closed_capital_calls |-> {},
               cancelled_capital_calls |-> {},
               redemptions |-> {},
               distributions |-> {},
               withdrawals |-> {}]
    IN
    IF st.capital_per_share = 0
    THEN [ok |-> FALSE, err |-> "panic", saved |-> None]
    ELSE IF not_evenly_divisble(st, msg.min_commitment)
    THEN [ok |-> FALSE, saved |-> None,
          err |-> "min commitment must be evenly divisible by capital per share"]
    ELSE IF not_evenly_divisble(st, msg.max_commitment)
    THEN [ok |-> FALSE, saved |-> None,
          err |-> "max commitment must be evenly divisible by capital per share"]
    ELSE [ok |-> TRUE, err |-> "", saved |-> Some(st)]

InstantiateCommand(sender, msg, result) ==
    [op |-> "instantiate", sender |-> sender, batch |-> NoBatch, lp |-> "",
     ok |-> result.ok, err |-> result.err, messages |-> <<>>, msg |-> msg]

\* the contract address exists and nothing is stored under it
InitInstantiate ==
    /\ state = None
    /\ authorizations = None
    /\ written = None
    /\ last = Command("create", "", NoBatch, "", Ok(<<>>, None))
    /\ tally = None
    /\ registry = NoAttributes

\* the host runs instantiate once for the address: a failed instantiation
\* leaves nothing behind and may be tried again
Instantiate(sender, msg) ==
    LET result == instantiate(sender, msg) IN
    /\ state = None
    /\ state' = IF result.ok THEN result.saved ELSE state
    /\ last' = InstantiateCommand(sender, msg, result)
    /\ UNCHANGED <<authorizations, written, tally, registry>>

NextInstantiate ==
    \E sender \in Senders, msg \in InstantiateMsgs : Instantiate(sender, msg)

SpecInstantiate == InitInstantiate /\ [][NextInstantiate]_vars

----------------------------------------------------------------------------
(* State::not_evenly_divisble and State::capital_to_shares applied to the  *)
(* States that instantiate saves                                           *)

ShareAmounts == {0, 1, 99, 100, 101, 150, 1000, 1001, 10000}

SharesCommand(amount, uneven, shares) ==
    [op |-> "shares", sender |-> "", batch |-> NoBatch, lp |-> "",
     ok |-> TRUE, err |-> "", messages |-> <<>>,
     amount |-> amount, uneven |-> uneven, shares |-> shares]

InitShares ==
    /\ state \in {instantiate("raise_1", msg).saved : msg \in InstantiateMsgs} \ {None}
    /\ authorizations = None
    /\ written = None
    /\ last = Command("create", "", NoBatch, "", Ok(<<>>, None))
    /\ tally = None
    /\ registry = NoAttributes

Shares(amount) ==
    /\ last' = SharesCommand(amount, not_evenly_divisble(unwrap(state), amount),
                             capital_to_shares(unwrap(state), amount))
    /\ UNCHANGED <<state, authorizations, written, tally, registry>>

NextShares == \E amount \in ShareAmounts : Shares(amount)

SpecShares == InitShares /\ [][NextShares]_vars

----------------------------------------------------------------------------
(* The commitment ledger and the capital call lifecycle on the State of    *)
(* state.rs. Their handlers are not in contract.rs: they follow sections   *)
(* 4.1, 4.2 and 4.5 of the specification                                   *)

CapitalCall(sequence, amount) == [sequence |-> sequence, amount |-> amount]

Redemption(sequence, asset, capital) ==
    [sequence |-> sequence, asset |-> asset, capital |-> capital]

Distribution(sequence, amount) == [sequence |-> sequence, amount |-> amount]

Withdrawal(sequence, to, amount) ==
    [sequence |-> sequence, to |-> to, amount |-> amount]

\* the transaction dropped
insert_nothing(set, transaction) == set

\* HashSet::insert under the PartialEq and Hash impls of state.rs: a
\* transaction equal by sequence to one of the set is not added
insert(set, transaction) ==
    IF \E e \in set : e.sequence = transaction.sequence THEN set
    ELSE set \cup {transaction}

\* the sequence left as it is
keep_sequence(st) == st

\* the only way a transaction identity is minted
bump_sequence(st) == [st EXCEPT !.sequence = @ + 1]

\* [ok, err, messages, state] of a commitment command
Rejected(st, err) == [ok |-> FALSE, err |-> err, messages |-> <<>>, state |-> st]

Done(st, messages) == [ok |-> TRUE, err |-> "", messages |-> messages, state |-> st]

\* Draft -> Accepted for a commitment within [min_commitment, max_commitment]
accept(st, sender, commitment) ==
    IF sender /= st.raise THEN Rejected(st, "only the raise can accept")
    ELSE IF st.status /= "Draft" THEN Rejected(st, "subscription is not in draft status")
    ELSE IF not_evenly_divisble(st, commitment)
    THEN Rejected(st, "commitment must be evenly divisible by capital per share")
    ELSE IF commitment < st.min_commitment \/ commitment > st.max_commitment
    THEN Rejected(st, "commitment outside of the accepted range")
    ELSE Done([st EXCEPT !.status = "Accepted"], <<>>)

\* capacity: the commitment units the raise holds, as the token module says
issue_capital_call(st, sender, amount, capacity) ==
    IF sender /= st.raise THEN Rejected(st, "only the raise can issue capital call")
    ELSE IF st.status /= "Accepted" THEN Rejected(st, "subscription is not accepted")
    ELSE IF not_evenly_divisble(st, amount)
    THEN Rejected(st, "capital call amount must be evenly divisible by capital per share")
    ELSE IF capital_to_shares(st, amount) > capacity
    THEN Rejected(st, "capital call larger than remaining commitment")
    ELSE LET bumped == bump_sequence(st)
             call == CapitalCall(bumped.sequence, amount)
         IN Done([bumped EXCEPT
                     !.cancelled_capital_calls =
                         IF is_some(st.active_capital_call)
                         THEN insert(@, unwrap(st.active_capital_call))
                         ELSE @,
                     !.active_capital_call = Some(call)],
                 <<>>)

\* attached: the capital sent with the command; the legs go to the raise
close_capital_call(st, sender, attached, retroactive) ==
    IF sender /= st.raise THEN Rejected(st, "only the raise can close capital call")
    ELSE IF ~is_some(st.active_capital_call) THEN Rejected(st, "no existing capital call")
    ELSE LET call == unwrap(st.active_capital_call)
             shares == capital_to_shares(st, call.amount)
         IN
         IF attached /= shares THEN Rejected(st, "incorrect amount sent for capital call")
         ELSE Done([st EXCEPT
                       !.closed_capital_calls = insert(@, call),
                       !.active_capital_call = None],
                   (IF retroactive THEN <<>>
                    ELSE <<[leg |-> "capital", to |-> st.raise,
                            coin |-> coin(call.amount, st.capital_denom)]>>)
                   \o <<[leg |-> "commitment", to |-> st.raise, shares |-> shares]>>)

\* a redemption, a distribution or a withdrawal entered in its set
record_transaction(st, sender, kind) ==
    IF sender /= st.raise /\ kind /= "withdrawal"
    THEN Rejected(st, "only the raise can record")
    ELSE IF sender /= st.lp /\ kind = "withdrawal"
    THEN Rejected(st, "only the lp can withdraw")
    ELSE IF st.status /= "Accepted" THEN Rejected(st, "subscription is not accepted")
    ELSE LET bumped == bump_sequence(st)
             sequence == bumped.sequence
         IN
         IF kind = "redemption"
         THEN Done([bumped EXCEPT !.redemptions =
                       insert(@, Redemption(sequence, 1, st.capital_per_share))], <<>>)
         ELSE IF kind = "distribution"
         THEN Done([bumped EXCEPT !.distributions =
                       insert(@, Distribution(sequence, st.capital_per_share))], <<>>)
         ELSE Done([bumped EXCEPT !.withdrawals =
                       insert(@, Withdrawal(sequence, "lp_side_account",
                                            st.capital_per_share))], <<>>)

CommitmentSenders == {"raise_1", "lp"}

CommitmentMsgs ==
    {msg \in InstantiateMsgs :
        /\ msg.lp = "lp"
        /\ msg.capital_per_share = 100
        /\ msg.min_commitment = 10000
        /\ msg.max_commitment = 100000}

CommitmentCommand(op, sender, amount, result) ==
    [op |-> op, sender |-> sender, batch |-> NoBatch, lp |-> "",
     ok |-> result.ok, err |-> result.err, messages |-> result.messages,
     amount |-> amount]

\* a command on the stored State: saved only when the handler returns Ok
Commitment(op, sender, amount, result) ==
    /\ state' = IF result.ok THEN Some(result.state) ELSE state
    /\ last' = CommitmentCommand(op, sender, amount, result)
    /\ UNCHANGED <<authorizations, written, tally, registry>>

Accept(sender, commitment) ==
    /\ is_some(state)
    /\ Commitment("accept", sender, commitment, accept(unwrap(state), sender, commitment))

IssueCapitalCall(sender, amount, capacity) ==
    /\ is_some(state)
    /\ unwrap(state).sequence < MaxSequence
    /\ Commitment("issue_capital_call", sender, amount,
                  issue_capital_call(unwrap(state), sender, amount, capacity))

CloseCapitalCall(sender, attached, retroactive) ==
    /\ is_some(state)
    /\ Commitment("close_capital_call", sender, attached,
                  close_capital_call(unwrap(state), sender, attached, retroactive))

RecordTransaction(sender, kind) ==
    /\ is_some(state)
    /\ unwrap(state).sequence < MaxSequence
    /\ Commitment(kind, sender, unwrap(state).capital_per_share,
                  record_transaction(unwrap(state), sender, kind))

NextCommitment ==
    \/ \E msg \in CommitmentMsgs : Instantiate("raise_1", msg)
    \/ \E sender \in CommitmentSenders, commitment \in {5000, 20000} :
          Accept(sender, commitment)
    \/ \E sender \in CommitmentSenders, amount \in {10000, 10001},
          capacity \in {0, 200} : IssueCapitalCall(sender, amount, capacity)
    \/ \E sender \in CommitmentSenders, attached \in {99, 100},
          retroactive \in BOOLEAN : CloseCapitalCall(sender, attached, retroactive)
    \/ \E sender \in CommitmentSenders,
          kind \in {"redemption", "distribution", "withdrawal"} :
            RecordTransaction(sender, kind)

SpecCommitment == InitInstantiate /\ [][NextCommitment]_vars

----------------------------------------------------------------------------
(* The command sequences with the tally of the successful commands kept *)

InitTally ==
    /\ state \in States
    /\ authorizations = None
    /\ written = None
    /\ last = Command("instantiate", "raise_1", NoBatch, "", Ok(<<>>, None))
    /\ tally = Some([authorized |-> <<>>, cancelled |-> <<>>,
                     completed_by_lp |-> <<>>, completed_by_admin |-> <<>>])
    /\ registry = NoAttributes

TallyBatches == {accept_batch, send_batch}

NextTally ==
    \/ \E sender \in Senders, lp \in RecoverTargets : Recover(sender, lp)
    \/ \E sender \in Senders, b \in TallyBatches : AuthorizeAssetExchange(sender, b)
    \/ \E sender \in Senders, b \in TallyBatches : CancelAssetExchangeAuthorization(sender, b)
    \/ \E sender \in Senders, b \in TallyBatches : CompleteAssetExchange(sender, b)

SpecTally == InitTally /\ [][NextTally]_vars

----------------------------------------------------------------------------
(* Properties of the admin's and the lp's completions *)

Tallies == unwrap(tally)

\* C1: a CompleteAssetExchange sent by the admin for a batch with no equal
\* pending authorization fails with the no-match error; in particular the
\* admin's second identical completion fails once the first has consumed the
\* only match.
C1_AdminCompletionNeedsMatch ==
    [][/\ (/\ last'.op = "complete"
           /\ last'.sender = state.admin
           /\ Occurrences(Pending, last'.batch) = 0)
          => (~last'.ok /\ last'.err = NoMatch)
       /\ (/\ last.op = "complete" /\ last.ok /\ last.sender = state.admin
           /\ Occurrences(Pending, last.batch) = 0
           /\ last'.op = "complete" /\ last'.sender = state.admin
           /\ last'.batch = last.batch)
          => (~last'.ok /\ last'.err = NoMatch)]_vars

\* the admin's completion fails for a batch that was authorized once and
\* completed once by the admin
C1_SecondCompletionFails ==
    /\ last.op = "complete" /\ last.sender = state.admin
    /\ ~last.ok /\ last.err = NoMatch
    /\ Count(Tallies.authorized, last.batch) = 1
    /\ Count(Tallies.completed_by_admin, last.batch) = 1
    /\ Count(Tallies.cancelled, last.batch) = 0

TalliedBatches ==
    TallyBatches \cup DOMAIN Tallies.authorized \cup DOMAIN Tallies.cancelled
        \cup DOMAIN Tallies.completed_by_lp \cup DOMAIN Tallies.completed_by_admin

\* C2: for every batch, the pending authorizations equal to it number the
\* successful authorizations minus the successful cancellations minus the
\* successful completions that found a match; and the admin's successful
\* completions never outnumber the authorizations.
C2_PendingIsAuthorizedMinusConsumed ==
    \A b \in TalliedBatches :
        /\ Occurrences(Pending, b)
              = Count(Tallies.authorized, b) - Count(Tallies.cancelled, b)
                - (Count(Tallies.completed_by_lp, b) + Count(Tallies.completed_by_admin, b))
        /\ Count(Tallies.completed_by_admin, b) <= Count(Tallies.authorized, b)

\* a batch authorized twice, cancelled once and completed once by the admin
C2_AuthorizedTwiceConsumedTwice ==
    \E b \in TallyBatches :
        /\ Count(Tallies.authorized, b) = 2
        /\ Count(Tallies.cancelled, b) = 1
        /\ Count(Tallies.completed_by_admin, b) = 1

\* C3 as stated: a CompleteAssetExchange sent by the current lp never fails
\* for lack of a matching pending authorization.
C3_LpNeverNeedsMatch ==
    [][(last'.op = "complete" /\ last'.sender = state.lp)
          => last'.err /= NoMatch]_vars

\* C3: a CompleteAssetExchange sent by the current lp, when the lp is not
\* also the admin, never fails for lack of a matching pending authorization.
C3_LpOtherThanAdminNeverNeedsMatch ==
    [][(last'.op = "complete" /\ last'.sender = state.lp /\ state.lp /= state.admin)
          => last'.err /= NoMatch]_vars

\* the lp's completion succeeded with no authorization list ever stored
C3_LpCompletedWithNothingStored ==
    /\ last.op = "complete" /\ last.ok
    /\ last.sender = state.lp /\ state.lp /= state.admin
    /\ ~is_some(authorizations)

----------------------------------------------------------------------------
(* Properties of what a completion sends *)

RECURSIVE SumInts(_)
SumInts(ints) == IF ints = <<>> THEN 0 ELSE Head(ints) + SumInts(Tail(ints))

Negative(n) == IF n < 0 THEN n ELSE 0

Delta(o) == IF is_some(o) THEN unwrap(o) ELSE 0

\* the denom the capital of a line is booked under
BookedDenom(exchange) ==
    IF is_some(exchange.capital_denom) THEN unwrap(exchange.capital_denom)
    ELSE state.like_capital_denoms[1]

CapitalDelta(exchange, denom) ==
    IF is_some(exchange.capital) /\ BookedDenom(exchange) = denom
    THEN unwrap(exchange.capital) ELSE 0

\* the instruments of a batch: <<kind, denom>>
Instruments(exchanges) ==
    {<<"investment", state.investment_denom>>, <<"commitment", state.commitment_denom>>}
    \cup {<<"capital", BookedDenom(exchanges[i])>> :
             i \in {j \in 1..Len(exchanges) : is_some(exchanges[j].capital)}}

InstrumentDeltas(exchanges, instrument) ==
    [i \in 1..Len(exchanges) |->
        IF instrument[1] = "investment" THEN Delta(exchanges[i].investment)
        ELSE IF instrument[1] = "commitment" THEN Delta(exchanges[i].commitment_in_shares)
        ELSE CapitalDelta(exchanges[i], instrument[2])]

\* the sum of all the deltas of an instrument
NetDelta(exchanges, instrument) == SumInts(InstrumentDeltas(exchanges, instrument))

\* the sum of the negative deltas of an instrument
NegativeDelta(exchanges, instrument) ==
    SumInts([i \in 1..Len(exchanges) |->
                Negative(InstrumentDeltas(exchanges, instrument)[i])])

\* the coins a response hands to the fund: attached funds and marker transfers
RECURSIVE CoinsSent(_)
CoinsSent(messages) ==
    IF messages = <<>> THEN <<>>
    ELSE (IF Head(messages).type = "wasm_execute" THEN Head(messages).funds
          ELSE <<Head(messages).coin>>) \o CoinsSent(Tail(messages))

Receiver(message) ==
    IF message.type = "wasm_execute" THEN message.contract_addr ELSE message.to

\* the number of coins of this denom and amount among the coins sent
CoinsOf(messages, denom, amount) ==
    Cardinality({i \in 1..Len(CoinsSent(messages)) :
                    CoinsSent(messages)[i] = coin(amount, denom)})

\* C4 as stated: for each instrument a successful CompleteAssetExchange sends
\* the fund the absolute value of the sum of the instrument's negative deltas.
C4_SendsSumOfNegativeDeltas ==
    (last.op = "complete" /\ last.ok) =>
        \A instrument \in Instruments(last.batch.exchanges) :
            LET owed == -NegativeDelta(last.batch.exchanges, instrument) IN
            owed > 0 =>
                \E i \in 1..Len(CoinsSent(last.messages)) :
                    CoinsSent(last.messages)[i] = coin(owed, instrument[2])

\* C4: for each instrument a successful CompleteAssetExchange sends the fund
\* the absolute value of the instrument's net delta (the sum of all its
\* deltas, positive and negative) when that sum is negative, and nothing for
\* an instrument whose net delta is zero or positive.
C4_SendsNegativeNetDelta ==
    (last.op = "complete" /\ last.ok) =>
        LET exchanges == last.batch.exchanges
            owing == {instrument \in Instruments(exchanges) :
                         NetDelta(exchanges, instrument) < 0}
        IN
        /\ \A i \in 1..Len(last.messages) : Receiver(last.messages[i]) = state.raise
        /\ Len(CoinsSent(last.messages)) = Cardinality(owing)
        /\ \A instrument \in owing :
               CoinsOf(last.messages, instrument[2], -NetDelta(exchanges, instrument))
                  = Cardinality({other \in owing :
                        /\ other[2] = instrument[2]
                        /\ NetDelta(exchanges, other) = NetDelta(exchanges, instrument)})

\* a completed batch whose investment deltas are -2 and +1: one coin of 1
C4_MixedSignsCompleted ==
    /\ last.op = "complete" /\ last.ok
    /\ last.batch.exchanges = <<send_line, accept_line>>
    /\ CoinsOf(last.messages, state.investment_denom, 1) = 1

\* C5: every successful CompleteAssetExchange emits exactly one
\* CompleteAssetExchange message, addressed to the stored raise, carrying the
\* exchanges, destination and memo of the command, as its last message.
C5_OneProtocolMessageLast ==
    (last.op = "complete" /\ last.ok) =>
        LET n == Len(last.messages) IN
        /\ n >= 1
        /\ last.messages[n].type = "wasm_execute"
        /\ last.messages[n].contract_addr = state.raise
        /\ last.messages[n].msg =
              [complete_asset_exchange |->
                  [exchanges |-> last.batch.exchanges, to |-> last.batch.to,
                   memo |-> last.batch.memo]]
        /\ \A i \in 1..(n - 1) : last.messages[i].type /= "wasm_execute"

\* a completion with a memo that emitted marker transfers before the message
C5_ProtocolMessageAfterTransfers ==
    /\ last.op = "complete" /\ last.ok
    /\ Len(last.messages) >= 3
    /\ is_some(last.batch.memo)

----------------------------------------------------------------------------
(* Properties of the caller checks and of the pending list *)

\* C6: a CompleteAssetExchange sent by an address that is neither the lp nor
\* the admin fails, emits no message and leaves the pending list unchanged,
\* also when a matching authorization is pending.
C6_StrangerCannotComplete ==
    [][(/\ last'.op = "complete"
        /\ last'.sender /= state.lp
        /\ last'.sender /= state.admin)
          => /\ ~last'.ok
             /\ last'.messages = <<>>
             /\ authorizations' = authorizations
             /\ written' = authorizations]_vars

\* a stranger's completion failed while a matching authorization is pending
C6_StrangerRefusedDespiteMatch ==
    /\ last.op = "complete" /\ ~last.ok
    /\ last.sender /= state.lp /\ last.sender /= state.admin
    /\ Occurrences(Pending, last.batch) > 0

\* C7: AuthorizeAssetExchange and CancelAssetExchangeAuthorization sent by
\* any address other than the current lp, the admin included, fail and leave
\* the pending list unchanged.
C7_OnlyLpAuthorizesAndCancels ==
    [][(/\ last'.op \in {"authorize", "cancel"}
        /\ last'.sender /= state.lp)
          => /\ ~last'.ok
             /\ authorizations' = authorizations
             /\ written' = authorizations]_vars

\* the admin's cancellation failed while a matching authorization is pending
C7_AdminCancelRefusedDespiteMatch ==
    /\ last.op = "cancel" /\ ~last.ok
    /\ last.sender = state.admin /\ state.admin /= state.lp
    /\ Occurrences(Pending, last.batch) > 0

\* C8: a successful AuthorizeAssetExchange by the lp makes the pending list
\* the previous list with the new authorization appended at the end, one
\* entry longer also when an equal authorization is already pending, leaves
\* the stored State unchanged and emits no message.
C8_AuthorizeAppends ==
    [][(last'.op = "authorize" /\ last'.ok)
          => /\ last'.sender = state.lp
             /\ authorizations' = Some(Append(Pending, last'.batch))
             /\ Len(unwrap_or_default(authorizations')) = Len(Pending) + 1
             /\ state' = state
             /\ last'.messages = <<>>]_vars

\* an authorization succeeded for a batch that was already pending
C8_AuthorizedWhilePending ==
    /\ last.op = "authorize" /\ last.ok
    /\ Occurrences(Pending, last.batch) >= 2

\* a line with a capital delta whose denom is not accepted, or is missing
\* while more than one denom is accepted
Unacceptable(exchange) ==
    /\ is_some(exchange.capital)
    /\ IF is_some(exchange.capital_denom)
       THEN \A i \in 1..Len(state.like_capital_denoms) :
               state.like_capital_denoms[i] /= unwrap(exchange.capital_denom)
       ELSE Len(state.like_capital_denoms) > 1

\* C9: AuthorizeAssetExchange is rejected, storing nothing, if any exchange
\* line that carries a capital delta names a denom outside
\* like_capital_denoms or omits the denom while more than one is accepted;
\* with exactly one accepted denom the lp's batch whose capital lines omit
\* the denom or name the accepted one is stored.
C9_AuthorizeChecksCapitalDenoms ==
    [][last'.op = "authorize"
          => LET exchanges == last'.batch.exchanges IN
             /\ (\E i \in 1..Len(exchanges) : Unacceptable(exchanges[i]))
                   => /\ ~last'.ok
                      /\ authorizations' = authorizations
                      /\ written' = authorizations
             /\ (/\ last'.sender = state.lp
                 /\ Len(state.like_capital_denoms) = 1
                 /\ \A i \in 1..Len(exchanges) :
                        \/ ~is_some(exchanges[i].capital)
                        \/ ~is_some(exchanges[i].capital_denom)
                        \/ exchanges[i].capital_denom = Some(state.like_capital_denoms[1]))
                   => /\ last'.ok
                      /\ Occurrences(unwrap_or_default(authorizations'), last'.batch)
                            = Occurrences(Pending, last'.batch) + 1]_vars

\* the lp's batch was rejected for its second line alone
C9_RejectedForSecondLine ==
    /\ last.op = "authorize" /\ ~last.ok /\ last.sender = state.lp
    /\ Len(last.batch.exchanges) = 2
    /\ ~Unacceptable(last.batch.exchanges[1])
    /\ Unacceptable(last.batch.exchanges[2])

\* the list without its entry at index
Without(list, index) ==
    [i \in 1..(Len(list) - 1) |-> IF i < index THEN list[i] ELSE list[i + 1]]

\* C10: whenever a successful CancelAssetExchangeAuthorization or a
\* successful CompleteAssetExchange removes a matching authorization, exactly
\* one entry goes, the first pending authorization equal to the batch, and
\* every other entry, later duplicates included, stays in its order.
C10_RemovesFirstMatchOnly ==
    [][(\/ last'.op = "cancel" /\ last'.ok
        \/ last'.op = "complete" /\ last'.ok /\ authorizations' /= authorizations)
          => /\ Occurrences(Pending, last'.batch) > 0
             /\ LET first == CHOOSE i \in 1..Len(Pending) :
                                /\ Pending[i] = last'.batch
                                /\ \A j \in 1..(i - 1) : Pending[j] /= last'.batch
                IN authorizations' = Some(Without(Pending, first))]_vars

\* a cancellation left a later duplicate of its batch behind another batch
C10_LaterDuplicateStays ==
    /\ last.op = "cancel" /\ last.ok
    /\ Len(Pending) = 2
    /\ Pending[1] /= last.batch
    /\ Pending[2] = last.batch

----------------------------------------------------------------------------
\* C11: a CancelAssetExchangeAuthorization sent by the lp for a batch that no
\* pending authorization equals, the case of a list that was never stored
\* included, fails with the no-match error; the handler writes nothing and
\* the pending list stays as it was.
C11_CancelWithoutMatchFails ==
    [][(/\ last'.op = "cancel"
        /\ last'.sender = state.lp
        /\ Occurrences(Pending, last'.batch) = 0)
       => /\ ~last'.ok
          /\ last'.err = NoMatch
          /\ last'.messages = <<>>
          /\ written' = authorizations
          /\ authorizations' = authorizations]_vars

\* the lp cancelled while no list had ever been stored
C11_CancelledWithNothingStored ==
    /\ last.op = "cancel"
    /\ last.sender = state.lp
    /\ ~last.ok
    /\ last.err = NoMatch
    /\ authorizations = None

----------------------------------------------------------------------------
\* C12: a Recover sent by any address other than the configured admin, the
\* current lp included, fails and leaves the stored lp as it was.
C12_OnlyAdminRecovers ==
    [][(last'.op = "recover" /\ last'.sender /= state.admin)
       => /\ ~last'.ok
          /\ last'.err = "only admin can recover subscription"
          /\ state'.lp = state.lp]_vars

\* the current lp, who is not the admin, asked for another lp and was refused
C12_LpRecoverRefused ==
    /\ last.op = "recover"
    /\ last.sender = state.lp
    /\ last.sender /= state.admin
    /\ last.lp /= state.lp
    /\ ~last.ok

----------------------------------------------------------------------------
\* C13: a Recover sent by the admin succeeds, sets lp to the supplied address
\* and changes nothing else: the other fields of the State and the pending
\* authorization list stay as they were, nothing is written to the list and
\* the response carries no message.
C13_RecoverSetsOnlyLp ==
    [][(last'.op = "recover" /\ last'.sender = state.admin)
       => /\ last'.ok
          /\ state' = [state EXCEPT !.lp = last'.lp]
          /\ authorizations' = authorizations
          /\ written' = authorizations
          /\ last'.messages = <<>>]_vars

\* the admin replaced the lp while an authorization was pending
C13_RecoveredWhilePending ==
    /\ last.op = "recover"
    /\ last.ok
    /\ last.lp = "raise_1"
    /\ state.lp = "raise_1"
    /\ Pending /= <<>>

----------------------------------------------------------------------------
\* C14: an IssueWithdrawal sent by any address other than the current lp, the
\* admin and the raise included, fails and emits no transfer.
C14_OnlyLpWithdraws ==
    (last.op = "withdraw" /\ last.sender /= state.lp)
        => /\ ~last.ok
           /\ last.err = "only the lp can withdraw"
           /\ last.messages = <<>>

\* the admin, who is not the lp, was refused a withdrawal that the lp would
\* have been granted
C14_AdminWithdrawalRefused ==
    /\ last.op = "withdraw"
    /\ last.sender = state.admin
    /\ last.sender /= state.lp
    /\ ~last.ok
    /\ issue_withdrawal(state, registry, state.lp, last.capital_denom,
                        last.to, last.amount).ok

----------------------------------------------------------------------------
\* the coin of the only message of a withdrawal
WithdrawnCoin ==
    LET message == last.messages[1] IN
    IF message.type = "bank_send" THEN message.amount[1] ELSE message.coin

DenomErrors == {"unsupported capital denom", "no capital denom"}

\* C15: an IssueWithdrawal of the lp resolves its capital denom: a denom that
\* is given is used if it is one of like_capital_denoms and the command fails
\* if it is not; an omitted denom is inferred as the only accepted denom, and
\* the command fails when the number of accepted denoms is not one.
C15_ResolvesCapitalDenom ==
    (last.op = "withdraw" /\ last.sender = state.lp)
        => LET given == last.capital_denom
               accepted == state.like_capital_denoms
           IN
           /\ (is_some(given) /\ Contains(accepted, unwrap(given)))
                => /\ last.err \notin DenomErrors
                   /\ last.ok => WithdrawnCoin.denom = unwrap(given)
           /\ (is_some(given) /\ ~Contains(accepted, unwrap(given)))
                => ~last.ok /\ last.err = "unsupported capital denom"
           /\ (~is_some(given) /\ Len(accepted) = 1)
                => /\ last.err \notin DenomErrors
                   /\ last.ok => WithdrawnCoin.denom = accepted[1]
           /\ (~is_some(given) /\ Len(accepted) /= 1)
                => ~last.ok /\ last.err = "no capital denom"

\* the second of two accepted denoms was given and withdrawn, where an
\* omitted denom could not have been inferred
C15_GivenDenomWithdrawn ==
    /\ last.op = "withdraw"
    /\ last.ok
    /\ Len(state.like_capital_denoms) = 2
    /\ last.capital_denom = Some(state.like_capital_denoms[2])
    /\ WithdrawnCoin.denom = state.like_capital_denoms[2]

----------------------------------------------------------------------------
\* the denom a withdrawal is made in when its denom resolves
RequestedDenom ==
    IF is_some(last.capital_denom) THEN unwrap(last.capital_denom)
    ELSE state.like_capital_denoms[1]

\* C16: with no required capital attribute configured, a successful
\* IssueWithdrawal emits exactly one message: a bank send to the requested
\* destination of the requested amount in the resolved capital denom.
C16_PlainWithdrawalIsOneBankSend ==
    (/\ last.op = "withdraw"
     /\ last.ok
     /\ ~is_some(state.required_capital_attribute))
        => last.messages =
              <<[type |-> "bank_send", to_address |-> last.to,
                 amount |-> <<[denom |-> RequestedDenom, amount |-> last.amount]>>]>>

\* a withdrawal with the denom inferred went out as a bank send
C16_PlainWithdrawalSent ==
    /\ last.op = "withdraw"
    /\ last.ok
    /\ ~is_some(state.required_capital_attribute)
    /\ last.capital_denom = None
    /\ last.amount > 0
    /\ last.messages[1].type = "bank_send"

----------------------------------------------------------------------------
\* a withdrawal of the lp whose capital denom resolves, with a required
\* capital attribute configured
RestrictedWithdrawal ==
    /\ last.op = "withdraw"
    /\ last.sender = state.lp
    /\ is_some(state.required_capital_attribute)
    /\ IF is_some(last.capital_denom)
       THEN Contains(state.like_capital_denoms, unwrap(last.capital_denom))
       ELSE Len(state.like_capital_denoms) = 1

DestinationHoldsAttribute ==
    /\ last.to \in DOMAIN registry
    /\ unwrap(state.required_capital_attribute) \in registry[last.to]

RestrictedWithdrawalSent ==
    /\ last.ok
    /\ last.messages =
          <<[type |-> "transfer_marker_coins",
             coin |-> [denom |-> RequestedDenom, amount |-> last.amount],
             to |-> last.to, from |-> MOCK_CONTRACT_ADDR]>>

\* C17 as stated: with a required capital attribute configured, an
\* IssueWithdrawal to a destination lacking the attribute fails with the
\* missing-attribute error; to a destination holding it, it succeeds and its
\* only message is a marker transfer of the requested amount from the
\* contract to the destination.
C17_RestrictedWithdrawal ==
    RestrictedWithdrawal
        => IF DestinationHoldsAttribute
           THEN RestrictedWithdrawalSent
           ELSE ~last.ok /\ last.err = MissingRequiredAttribute

\* C17 amended: the same for a requested amount greater than zero; a
\* withdrawal of zero to a destination holding the attribute fails, no marker
\* transfer being built for it.
C17_RestrictedWithdrawalOfPositiveAmount ==
    RestrictedWithdrawal
        => IF ~DestinationHoldsAttribute
           THEN ~last.ok /\ last.err = MissingRequiredAttribute
           ELSE IF last.amount > 0
           THEN RestrictedWithdrawalSent
           ELSE ~last.ok /\ last.messages = <<>>

\* a marker transfer went out to a destination holding the attribute
C17_MarkerTransferSent ==
    /\ RestrictedWithdrawal
    /\ DestinationHoldsAttribute
    /\ last.amount > 0
    /\ last.ok
    /\ last.messages[1].type = "transfer_marker_coins"

----------------------------------------------------------------------------
(* Properties of the capital leg of a completion *)

\* the capital instruments of the batch whose net delta is negative
CapitalOwed ==
    {instrument \in Instruments(last.batch.exchanges) :
        /\ instrument[1] = "capital"
        /\ NetDelta(last.batch.exchanges, instrument) < 0}

\* the investment and commitment instruments whose net delta is negative
SharesOwed ==
    {instrument \in Instruments(last.batch.exchanges) :
        /\ instrument[1] /= "capital"
        /\ NetDelta(last.batch.exchanges, instrument) < 0}

\* C18: when the capital leg of a CompleteAssetExchange goes out as a marker
\* transfer (a required capital attribute is configured and the capital sum
\* of a denom is negative), the attribute module is queried for the
\* destination of the transfer, the raise, and the command is rejected if the
\* raise does not hold the required attribute.
C18_RestrictedLegNeedsAttribute ==
    (/\ last.op = "complete"
     /\ is_some(state.required_capital_attribute)
     /\ CapitalOwed /= {}
     /\ unwrap(state.required_capital_attribute)
            \notin query_attributes(registry, state.raise))
        => ~last.ok

----------------------------------------------------------------------------
\* C19: with a required capital attribute configured, a successful
\* CompleteAssetExchange emits, for every capital denom whose summed delta is
\* negative, a marker transfer of the absolute sum of that denom from the
\* contract to the raise, placed before the protocol message; the funds
\* attached to the protocol message are the investment and commitment coins
\* only, no capital sum being among them.
C19_RestrictedCapitalGoesByMarkerTransfer ==
    (/\ last.op = "complete"
     /\ last.ok
     /\ is_some(state.required_capital_attribute))
        => LET exchanges == last.batch.exchanges
               n == Len(last.messages)
               funds == last.messages[n].funds
           IN
           /\ n = Cardinality(CapitalOwed) + 1
           /\ \A instrument \in CapitalOwed :
                  \E i \in 1..(n - 1) :
                      last.messages[i] =
                          [type |-> "transfer_marker_coins",
                           coin |-> [denom |-> instrument[2],
                                     amount |-> -NetDelta(exchanges, instrument)],
                           to |-> state.raise, from |-> MOCK_CONTRACT_ADDR]
           /\ Len(funds) = Cardinality(SharesOwed)
           /\ \A instrument \in SharesOwed :
                  \E i \in 1..Len(funds) :
                      funds[i] = [denom |-> instrument[2],
                                  amount |-> -NetDelta(exchanges, instrument)]

\* a completion that sent its capital by marker transfer and attached the
\* investment and the commitment coin to the protocol message
C19_MarkerTransferBeforeProtocolMessage ==
    /\ last.op = "complete" /\ last.ok
    /\ is_some(state.required_capital_attribute)
    /\ Len(last.messages) = 2
    /\ last.messages[1].type = "transfer_marker_coins"
    /\ Len(last.messages[2].funds) = 2

----------------------------------------------------------------------------
\* C20: the coins attached to the protocol message of a successful
\* CompleteAssetExchange are in ascending order of their denom, whatever the
\* order in which the capital sums were iterated.
C20_FundsSortedByDenom ==
    (last.op = "complete" /\ last.ok)
        => LET funds == last.messages[Len(last.messages)].funds IN
           \A i, j \in 1..Len(funds) :
               i < j => DenomRank(funds[i].denom) <= DenomRank(funds[j].denom)

\* four coins attached: the investment and commitment coins were pushed
\* first and the two capital coins, which sort before them, after
C20_FourCoinsAttached ==
    /\ last.op = "complete" /\ last.ok
    /\ Len(last.messages[Len(last.messages)].funds) = 4

----------------------------------------------------------------------------
\* no delta of any line of the batch is negative
NoNegativeDelta(exchanges) ==
    \A i \in 1..Len(exchanges) :
        /\ Delta(exchanges[i].investment) >= 0
        /\ Delta(exchanges[i].commitment_in_shares) >= 0
        /\ Delta(exchanges[i].capital) >= 0

\* C21: a successful CompleteAssetExchange whose batch has no negative delta,
\* in one capital denom or in several, emits exactly one message, the
\* CompleteAssetExchange message to the raise, with no funds attached and no
\* transfer of any kind.
C21_AcceptOnlySendsNothing ==
    (/\ last.op = "complete"
     /\ last.ok
     /\ NoNegativeDelta(last.batch.exchanges))
        => last.messages =
              <<[type |-> "wasm_execute", contract_addr |-> state.raise,
                 msg |-> [complete_asset_exchange |->
                            [exchanges |-> last.batch.exchanges,
                             to |-> last.batch.to, memo |-> last.batch.memo]],
                 funds |-> <<>>]>>

\* a batch accepting capital in two denoms was completed
C21_AcceptedTwoCapitalDenoms ==
    /\ last.op = "complete" /\ last.ok
    /\ last.batch.exchanges = <<accept_line, accept_b_line>>
    /\ Len(last.messages) = 1

----------------------------------------------------------------------------
\* a line of the batch carries a capital delta and names no capital denom
HasUnnamedCapital(exchanges) ==
    \E i \in 1..Len(exchanges) :
        is_some(exchanges[i].capital) /\ ~is_some(exchanges[i].capital_denom)

\* C22: a CompleteAssetExchange with a line that carries a capital delta and
\* no capital denom fails when more than one capital denom is accepted; with
\* exactly one accepted denom it is not refused for the denom (it succeeds for
\* the lp, and for the admin unless no authorization matches) and the line's
\* capital is summed under that denom.
C22_UnnamedCapitalDenom ==
    (last.op = "complete" /\ HasUnnamedCapital(last.batch.exchanges))
        => LET exchanges == last.batch.exchanges
               accepted == state.like_capital_denoms
               only == <<"capital", accepted[1]>>
           IN
           /\ Len(accepted) > 1
                => /\ ~last.ok
                   /\ last.sender = state.lp => last.err = "no capital denom"
           /\ Len(accepted) = 1
                => /\ last.err /= "no capital denom"
                   /\ (last.sender = state.lp /\ state.lp /= state.admin) => last.ok
                   /\ (last.ok /\ NetDelta(exchanges, only) < 0)
                        => CoinsOf(last.messages, accepted[1],
                                   -NetDelta(exchanges, only)) = 1
                   /\ (last.ok /\ NetDelta(exchanges, only) >= 0)
                        => \A i \in 1..Len(CoinsSent(last.messages)) :
                               CoinsSent(last.messages)[i].denom /= accepted[1]

\* with one accepted denom, a line without a denom (-1) and a line in cap_a
\* (-2) were completed: one coin of 3 cap_a went out
C22_UnnamedCapitalSummed ==
    /\ last.op = "complete" /\ last.ok
    /\ last.batch.exchanges = <<no_denom_line, send_line>>
    /\ CoinsOf(last.messages, "cap_a", 3) = 1

----------------------------------------------------------------------------
----------------------------------------------------------------------------
\* C24: a successful migrate replaces the stored state by one whose admin,
\* lp, raise, commitment_denom, investment_denom and capital_per_share are
\* those of the old state and whose like_capital_denoms and
\* required_capital_attributes are exactly those of the migrate message; the
\* old capital_denom is not carried over and nothing else enters the result.
C24_MigrateKeepsPartiesTakesDenoms ==
    [][(last'.op = "migrate" /\ last'.ok)
       => /\ state' = [admin |-> state.admin,
                       lp |-> state.lp,
                       raise |-> state.raise,
                       commitment_denom |-> state.commitment_denom,
                       investment_denom |-> state.investment_denom,
                       capital_per_share |-> state.capital_per_share,
                       like_capital_denoms |-> last'.migrate_msg.like_capital_denoms,
                       required_capital_attributes |->
                           last'.migrate_msg.required_capital_attributes]
          /\ last'.messages = <<>>]_vars

\* a migration to a new denom with a required attribute, the old
\* capital_denom being gone
C24_MigratedToNewDenom ==
    /\ last.op = "migrate" /\ last.ok
    /\ state.like_capital_denoms = <<"new_denom">>
    /\ state.required_capital_attributes =
          <<[capital_denom |-> "new_denom", required_attribute |-> "attr"]>>
    /\ "capital_denom" \notin DOMAIN state

----------------------------------------------------------------------------
\* amount is a multiple of capital_per_share
EvenlyDivisible(amount, capital_per_share) ==
    /\ capital_per_share > 0
    /\ \E shares \in 0..amount : shares * capital_per_share = amount

\* C25: instantiate fails when min_commitment or max_commitment is not evenly
\* divisible by capital_per_share, and then no State is stored; when both are
\* evenly divisible it stores the State built from the message, the sequence
\* at 0 and the transaction sets empty, and emits no message.
C25_InstantiateChecksDivisibility ==
    [][last'.op = "instantiate"
       => LET msg == last'.msg
              divisible ==
                  /\ EvenlyDivisible(msg.min_commitment, msg.capital_per_share)
                  /\ EvenlyDivisible(msg.max_commitment, msg.capital_per_share)
          IN
          /\ ~divisible => ~last'.ok /\ state' = None
          /\ divisible
               => /\ last'.ok
                  /\ last'.messages = <<>>
                  /\ is_some(state')
                  /\ unwrap(state').raise = last'.sender
                  /\ unwrap(state').lp = msg.lp
                  /\ unwrap(state').recovery_admin = msg.recovery_admin
                  /\ unwrap(state').capital_per_share = msg.capital_per_share
                  /\ unwrap(state').min_commitment = msg.min_commitment
                  /\ unwrap(state').max_commitment = msg.max_commitment
                  /\ unwrap(state').sequence = 0]_vars

\* an instantiation refused for its max commitment alone: nothing is stored
C25_BadMaxRefused ==
    /\ last.op = "instantiate"
    /\ ~last.ok
    /\ last.msg.capital_per_share = 100
    /\ last.msg.min_commitment = 10000
    /\ last.msg.max_commitment = 50001
    /\ state = None

----------------------------------------------------------------------------
(* Properties of the commitment ledger *)

\* the capital calls of a State, each with the place it is held in
CapitalCalls(st) ==
    {<<"active", st.active_capital_call[i]>> : i \in 1..Len(st.active_capital_call)}
    \cup {<<"closed", call>> : call \in st.closed_capital_calls}
    \cup {<<"cancelled", call>> : call \in st.cancelled_capital_calls}

\* every recorded transaction of a State, with the place it is held in
Transactions(st) ==
    CapitalCalls(st)
    \cup {<<"redemption", transaction>> : transaction \in st.redemptions}
    \cup {<<"distribution", transaction>> : transaction \in st.distributions}
    \cup {<<"withdrawal", transaction>> : transaction \in st.withdrawals}

\* C26: a commitment starts with sequence 0 and no transaction; in every
\* state it reaches no two recorded transactions share a sequence number, no
\* recorded sequence number exceeds the current sequence, and the sequence
\* never decreases from a state to the next.
C26_SequencesUniqueAndMonotonic ==
    [][is_some(state')
       => LET st == unwrap(state') IN
          /\ ~is_some(state) => st.sequence = 0 /\ Transactions(st) = {}
          /\ is_some(state) => st.sequence >= unwrap(state).sequence
          /\ \A a, b \in Transactions(st) :
                 a /= b => a[2].sequence /= b[2].sequence
          /\ \A a \in Transactions(st) : a[2].sequence <= st.sequence]_vars

\* three transactions of three kinds recorded under the sequences 1, 2, 3
C26_ThreeKindsRecorded ==
    /\ is_some(state)
    /\ unwrap(state).sequence = 3
    /\ Cardinality(Transactions(unwrap(state))) = 3
    /\ Cardinality({a[1] : a \in Transactions(unwrap(state))}) = 3

----------------------------------------------------------------------------
\* C27: at most one capital call is active at a time: a capital call issued
\* while one is active moves that one to the cancelled set and becomes the
\* only active call; no call is held in more than one of the active slot,
\* the closed set and the cancelled set.
C27_OneActiveCapitalCall ==
    [][is_some(state')
       => LET st == unwrap(state') IN
          /\ Len(st.active_capital_call) <= 1
          /\ \A a, b \in CapitalCalls(st) :
                 a[2].sequence = b[2].sequence => a[1] = b[1]
          /\ (/\ last'.op = "issue_capital_call"
              /\ last'.ok
              /\ is_some(unwrap(state).active_capital_call))
               => LET stale == unwrap(unwrap(state).active_capital_call) IN
                  /\ stale \in st.cancelled_capital_calls
                  /\ stale \notin st.closed_capital_calls
                  /\ st.active_capital_call =
                        Some([sequence |-> unwrap(state).sequence + 1,
                              amount |-> last'.amount])
                  /\ st.closed_capital_calls = unwrap(state).closed_capital_calls]_vars

\* a second capital call was issued while the first was active
C27_SecondCallSupersedesFirst ==
    /\ is_some(state)
    /\ last.op = "issue_capital_call" /\ last.ok
    /\ is_some(unwrap(state).active_capital_call)
    /\ unwrap(unwrap(state).active_capital_call).sequence = 2
    /\ \E call \in unwrap(state).cancelled_capital_calls : call.sequence = 1

----------------------------------------------------------------------------
\* C28: not_evenly_divisble(amount) is true exactly when amount is not a
\* multiple of capital_per_share (for capital_per_share = 100: false for 100
\* and 1000, true for 101 and 1001), and for every amount it lets pass
\* capital_to_shares(amount) times capital_per_share is amount again.
C28_DivisibilityAndShares ==
    last.op = "shares"
        => LET capital_per_share == unwrap(state).capital_per_share IN
           /\ last.uneven <=> ~EvenlyDivisible(last.amount, capital_per_share)
           /\ ~last.uneven => last.shares * capital_per_share = last.amount
           /\ (capital_per_share = 100 /\ last.amount \in {100, 1000}) => ~last.uneven
           /\ (capital_per_share = 100 /\ last.amount \in {101, 1001}) => last.uneven

\* 1000 at 100 per share passes the check and converts to 10 shares
C28_ThousandIsTenShares ==
    /\ last.op = "shares"
    /\ unwrap(state).capital_per_share = 100
    /\ last.amount = 1000
    /\ ~last.uneven
    /\ last.shares = 10

----------------------------------------------------------------------------
\* C29: in every reachable state, the states after a migration included, the
\* stored like_capital_denoms holds at least one accepted capital denom.
C29_AlwaysAnAcceptedDenom ==
    "like_capital_denoms" \in DOMAIN state => Len(state.like_capital_denoms) >= 1

----------------------------------------------------------------------------
\* the pending list after the step lost exactly one authorization equal to
\* the batch and nothing else
OneConsumed(b) ==
    LET after == unwrap_or_default(authorizations') IN
    /\ Len(after) = Len(Pending) - 1
    /\ Occurrences(after, b) = Occurrences(Pending, b) - 1
    /\ \A i \in 1..Len(Pending) :
           Pending[i] /= b => Occurrences(after, Pending[i]) = Occurrences(Pending, Pending[i])

\* C30 as stated: when the lp successfully completes a batch for which an
\* equal authorization is pending, one such authorization is consumed; when
\* no equal authorization is pending, the lp's completion succeeds and leaves
\* the pending list unchanged.
C30_LpCompletionConsumesOrPasses ==
    [][(last'.op = "complete" /\ last'.sender = state.lp)
       => /\ (last'.ok /\ Occurrences(Pending, last'.batch) > 0)
               => OneConsumed(last'.batch)
          /\ Occurrences(Pending, last'.batch) = 0
               => last'.ok /\ authorizations' = authorizations]_vars

\* C30 amended: the same, the completion without an equal pending
\* authorization succeeding for an lp that is not also the admin and a batch
\* whose capital denoms resolve; it is never refused for lack of a match and
\* whenever it succeeds the pending list is unchanged.
C30_LpOtherThanAdminConsumesOrPasses ==
    [][(last'.op = "complete" /\ last'.sender = state.lp)
       => /\ (last'.ok /\ Occurrences(Pending, last'.batch) > 0)
               => OneConsumed(last'.batch)
          /\ (Occurrences(Pending, last'.batch) = 0 /\ state.lp /= state.admin)
               => /\ last'.err /= NoMatch
                  /\ is_some(total_capital_per_denom(state, last'.batch.exchanges, <<>>))
                       => last'.ok
                  /\ authorizations' = authorizations]_vars

\* the lp completed a batch and an equal authorization is still pending: of
\* two equal authorizations one was consumed
C30_OneOfTwoConsumed ==
    /\ last.op = "complete" /\ last.ok
    /\ last.sender = state.lp
    /\ last.sender /= state.admin
    /\ Occurrences(Pending, last.batch) = 1

----------------------------------------------------------------------------
\* two exchange lines equal in each of their five fields
SameLine(x, y) ==
    /\ x.investment = y.investment
    /\ x.commitment_in_shares = y.commitment_in_shares
    /\ x.capital_denom = y.capital_denom
    /\ x.capital = y.capital
    /\ x.date = y.date

\* the same lines in the same order, the same to and the same memo
SameContent(a, b) ==
    /\ Len(a.exchanges) = Len(b.exchanges)
    /\ \A i \in 1..Len(a.exchanges) : SameLine(a.exchanges[i], b.exchanges[i])
    /\ a.to = b.to
    /\ a.memo = b.memo

\* what tells a from b, when it is one thing only
Difference(a, b) ==
    IF a.to /= b.to THEN "to"
    ELSE IF a.memo /= b.memo THEN "memo"
    ELSE IF a.exchanges[1].investment /= b.exchanges[1].investment
               /\ a.exchanges[2] = b.exchanges[2] THEN "investment"
    ELSE IF a.exchanges[1].commitment_in_shares /= b.exchanges[1].commitment_in_shares
               /\ a.exchanges[2] = b.exchanges[2] THEN "commitment_in_shares"
    ELSE IF a.exchanges[1].capital_denom /= b.exchanges[1].capital_denom
               /\ a.exchanges[2] = b.exchanges[2] THEN "capital_denom"
    ELSE IF a.exchanges[1].capital /= b.exchanges[1].capital
               /\ a.exchanges[2] = b.exchanges[2] THEN "capital"
    ELSE IF a.exchanges[1].date /= b.exchanges[1].date
               /\ a.exchanges[2] = b.exchanges[2] THEN "date"
    ELSE IF a.exchanges /= b.exchanges THEN "order"
    ELSE ""

\* C31: a Cancel or Complete matches a pending authorization only when its
\* lines are equal field by field and in the same order and its to and memo
\* are equal: the entry it removes is such an entry, and while no such entry
\* is pending a Cancel by the lp and a Complete by the admin fail for lack of
\* a match and a Complete by the lp removes nothing.
C31_MatchesByFullContent ==
    [][(last'.op \in {"cancel", "complete"}
            /\ last'.sender \in {state.lp, state.admin})
       => /\ authorizations' /= authorizations
               => \E i \in 1..Len(Pending) :
                     /\ SameContent(Pending[i], last'.batch)
                     /\ authorizations' = Some(Without(Pending, i))
          /\ (\A i \in 1..Len(Pending) : ~SameContent(Pending[i], last'.batch))
               => /\ authorizations' = authorizations
                  /\ (last'.op = "cancel" /\ last'.sender = state.lp)
                       => ~last'.ok /\ last'.err = NoMatch
                  /\ (last'.op = "complete" /\ last'.sender = state.admin)
                       => ~last'.ok /\ last'.err = NoMatch]_vars

\* a Cancel by the lp found no match while the batch that is pending differs
\* from it in the date of a line only
C31_NearMissesDoNotMatch ==
    /\ last.op = "cancel" /\ last.sender = state.lp
    /\ ~last.ok /\ last.err = NoMatch
    /\ Len(Pending) = 1
    /\ Difference(Pending[1], last.batch) = "date"

----------------------------------------------------------------------------
\* the fields of the stored State other than lp
SettingFields ==
    {"admin", "raise", "commitment_denom", "investment_denom", "like_capital_denoms",
     "capital_per_share", "required_capital_attribute"}

\* C32: no execute command changes admin, raise, the denom settings,
\* capital_per_share or the required capital attribute, so they keep their
\* initial values; the stored State changes only in a successful Recover, and
\* then only in lp, which becomes the address of the command.
C32_OnlyRecoverChangesState ==
    [][/\ \A field \in SettingFields : state'[field] = state[field]
       /\ state' /= state
            => /\ last'.op = "recover" /\ last'.ok
               /\ state' = [state EXCEPT !.lp = last'.lp]]_vars

\* after a Recover has replaced the lp and authorizations were granted, a
\* withdrawal went out: every kind of command has run and the settings are
\* those of the initial State
C32_SettingsKeptThroughAllCommands ==
    /\ last.op = "withdraw" /\ last.ok
    /\ state.lp /= "lp"
    /\ Len(Pending) = 2
    /\ state.admin = "admin" /\ state.raise = "raise_1"
    /\ state.required_capital_attribute = Some("capital.test")

----------------------------------------------------------------------------
OnlyLpErrors ==
    {"only the lp can authorize asset exchanges",
     "only the lp can cancel asset exchange authorization",
     "only the lp can withdraw"}

OnlyLpOrAdmin == "only the lp or admin can complete asset exchange"

\* the results of a CompleteAssetExchange, one for each iteration order of
\* the capital sums
Completions(st, stored, sender, b) ==
    LET capital == total_capital_per_denom(st, b.exchanges, <<>>)
        orders == IF is_some(capital) THEN IterOrders(unwrap(capital)) ELSE {<<>>}
    IN {complete_asset_exchange(st, stored, sender, b.exchanges, b.to, b.memo, order) :
            order \in orders}

\* after the step address x gets from Authorize, Cancel and IssueWithdrawal
\* what address old got before it
TakesOver(x, old) ==
    /\ \A b \in Batches :
          /\ authorize_asset_exchange(state', authorizations', x, b.exchanges, b.to, b.memo)
                = authorize_asset_exchange(state, authorizations, old,
                                           b.exchanges, b.to, b.memo)
          /\ cancel_asset_exchange_authorization(state', authorizations', x,
                                                 b.exchanges, b.to, b.memo)
                = cancel_asset_exchange_authorization(state, authorizations, old,
                                                      b.exchanges, b.to, b.memo)
    /\ \A capital_denom \in WithdrawalDenoms, to \in WithdrawalTargets,
          amount \in WithdrawalAmounts :
            issue_withdrawal(state', registry', x, capital_denom, to, amount)
              = issue_withdrawal(state, registry, old, capital_denom, to, amount)

\* after the step address old is refused as a caller
Refused(old) ==
    /\ \A b \in Batches :
          /\ authorize_asset_exchange(state', authorizations', old,
                                      b.exchanges, b.to, b.memo).err \in OnlyLpErrors
          /\ cancel_asset_exchange_authorization(state', authorizations', old,
                                                 b.exchanges, b.to, b.memo).err
                \in OnlyLpErrors
          /\ old /= state'.admin
               => \A result \in Completions(state', authorizations', old, b) :
                      result.err = OnlyLpOrAdmin
    /\ \A capital_denom \in WithdrawalDenoms, to \in WithdrawalTargets,
          amount \in WithdrawalAmounts :
            issue_withdrawal(state', registry', old, capital_denom, to, amount).err
              \in OnlyLpErrors

\* after the step address x completes batches without an authorization
CompletesUnauthorized(x) ==
    \A b \in Batches : \A result \in Completions(state', authorizations', x, b) :
        /\ result.err \notin {NoMatch, OnlyLpOrAdmin}
        /\ is_some(total_capital_per_denom(state', b.exchanges, <<>>)) => result.ok

\* after the step the pending list is the one before it and the admin is
\* let through, with a match, for each of its entries
StillCompletableByAdmin ==
    /\ authorizations' = authorizations
    /\ \A i \in 1..Len(Pending) :
          \A result \in Completions(state', authorizations', state'.admin, Pending[i]) :
              /\ result.err \notin {NoMatch, OnlyLpOrAdmin}
              /\ result.ok => Len(unwrap(result.stored)) = Len(Pending) - 1

\* a command of a caller other than the current lp is refused, but for a
\* Complete of the admin
StrangerRefused ==
    (last'.op \in {"authorize", "cancel", "withdraw"} /\ last'.sender /= state.lp)
        => ~last'.ok /\ last'.err \in OnlyLpErrors

\* C33 as stated: after a successful Recover to an address X other than the
\* previous lp, Authorize, Cancel, IssueWithdrawal and Complete without
\* authorization are accepted from X and rejected from the previous lp
\* (unless it is the admin, for Complete), and the authorizations granted
\* by the previous lp stay pending and completable by the admin.
C33_RecoveredLpTakesOver ==
    [][/\ (last'.op = "recover" /\ last'.ok /\ last'.lp /= state.lp)
            => /\ TakesOver(last'.lp, state.lp)
               /\ CompletesUnauthorized(last'.lp)
               /\ Refused(state.lp)
               /\ StillCompletableByAdmin
       /\ StrangerRefused]_vars

\* C33 amended: the same, the Complete without authorization being accepted
\* from X when X is not the admin; an X that is the admin needs a match.
C33_RecoveredLpOtherThanAdminTakesOver ==
    [][/\ (last'.op = "recover" /\ last'.ok /\ last'.lp /= state.lp)
            => /\ TakesOver(last'.lp, state.lp)
               /\ last'.lp /= state'.admin => CompletesUnauthorized(last'.lp)
               /\ last'.lp = state'.admin
                    => \A b \in Batches :
                         \A result \in Completions(state', authorizations', last'.lp, b) :
                           (position(Pending, b) = 0) <=> (result.err = NoMatch)
               /\ Refused(state.lp)
               /\ StillCompletableByAdmin
       /\ StrangerRefused]_vars

\* the lp was replaced by raise_1 and the first lp then tried to cancel an
\* authorization that is pending: it was refused and the authorization stays
C33_FormerLpRefused ==
    /\ state.lp = "raise_1"
    /\ last.op = "cancel" /\ last.sender = "lp"
    /\ ~last.ok /\ last.err \in OnlyLpErrors
    /\ Occurrences(Pending, last.batch) > 0

----------------------------------------------------------------------------
\* the capital denoms the lines of a batch name
NamedDenoms(b) ==
    {unwrap(b.exchanges[i].capital_denom) :
        i \in {j \in 1..Len(b.exchanges) : is_some(b.exchanges[j].capital_denom)}}

\* C34: a migration, successful or failed, leaves the pending authorization
\* list as it was, entry for entry and in the same order, and writes nothing
\* to it, whatever the like_capital_denoms it installs.
C34_MigrateKeepsPending ==
    [][last'.op = "migrate"
       => /\ authorizations' = authorizations
          /\ written' = authorizations
          /\ \A i \in 1..Len(Pending) :
                unwrap_or_default(authorizations')[i] = Pending[i]]_vars

\* a migration succeeded while three authorizations were pending, one of them
\* for a capital denom that the migrated State does not accept
C34_PendingForDroppedDenom ==
    /\ last.op = "migrate" /\ last.ok
    /\ Len(Pending) = 3
    /\ \E i \in 1..Len(Pending) :
          \E denom \in NamedDenoms(Pending[i]) :
            ~Contains(state.like_capital_denoms, denom)

----------------------------------------------------------------------------
\* C35: an IssueWithdrawal, successful or failed, leaves the stored State and
\* the pending authorization list as they were, writes nothing to the list,
\* and the State holds no withdrawal record and no sequence number after it.
C35_WithdrawalChangesNoStorage ==
    [][last'.op = "withdraw"
       => /\ state' = state
          /\ authorizations' = authorizations
          /\ written' = authorizations
          /\ DOMAIN state' \cap {"sequence", "withdrawals"} = {}]_vars

\* capital was withdrawn by a restricted transfer while two authorizations
\* were pending
C35_WithdrawnWhilePending ==
    /\ last.op = "withdraw" /\ last.ok
    /\ last.amount = 10
    /\ is_some(state.required_capital_attribute)
    /\ Len(Pending) = 2

----------------------------------------------------------------------------
\* the same authorizations with the same multiplicities
SameMultiset(list, other) ==
    /\ Len(list) = Len(other)
    /\ \A i \in 1..Len(list) : Occurrences(list, list[i]) = Occurrences(other, list[i])

\* Authorize(b) by the lp, when accepted, then Cancel(b) by the lp: the
\* Cancel succeeds and the pending collection is the one before the pair
PairRestores(b) ==
    LET authorized == authorize_asset_exchange(state, authorizations, state.lp,
                                               b.exchanges, b.to, b.memo)
        cancelled == cancel_asset_exchange_authorization(state, authorized.stored,
                                                         state.lp, b.exchanges, b.to, b.memo)
    IN authorized.ok
         => /\ cancelled.ok
            /\ SameMultiset(unwrap_or_default(cancelled.stored), Pending)

\* C36: for every pending list and every batch B that AuthorizeAssetExchange
\* accepts, Authorize(B) immediately followed by Cancel(B) by the lp succeeds
\* and leaves the pending collection with the same authorizations and the
\* same multiplicities as before the pair: in every state the two handlers
\* composed restore the collection, and a Cancel(B) that follows a
\* successful Authorize(B) takes away what that Authorize added.
C36_AuthorizeThenCancelRestores ==
    [][/\ \A b \in Batches : PairRestores(b)
       /\ (/\ last.op = "authorize" /\ last.ok
           /\ last'.op = "cancel" /\ last'.batch = last.batch
           /\ last'.sender = state.lp)
            => /\ last'.ok
               /\ SameMultiset(unwrap_or_default(authorizations'),
                               SubSeq(Pending, 1, Len(Pending) - 1))]_vars

\* a batch was cancelled that was pending twice, the later one behind another
\* batch: the order of the list is not the one before the pair, its content is
C36_CancelledEarlierOfTwo ==
    /\ last.op = "cancel" /\ last.ok
    /\ Len(Pending) = 2
    /\ Pending[1] /= last.batch
    /\ Pending[2] = last.batch

----------------------------------------------------------------------------
\* C37: CompleteAssetExchange is deterministic: every execution with the
\* stored state, the sender and the command of this one produces the same
\* response, with the same messages in the same order and the same attached
\* funds, and the same pending list.
C37_CompleteIsDeterministic ==
    [][last'.op = "complete"
       => \A result \in Completions(state, authorizations, last'.sender, last'.batch) :
             /\ result.ok = last'.ok
             /\ result.err = last'.err
             /\ result.messages = last'.messages
             /\ result.ok => result.stored = authorizations']_vars

----------------------------------------------------------------------------
\* the capital denoms of the last command with a negative sum: those for
\* which coins are attached or a restricted transfer is emitted
CapitalDenomsSent ==
    LET capital == unwrap(total_capital_per_denom(state, last.batch.exchanges, <<>>))
    IN {denom \in DOMAIN capital : capital[denom] < 0}

\* C38: in every successful CompleteAssetExchange, by the lp or by the admin,
\* every capital denom for which coins are attached or a restricted transfer
\* is emitted is a member of like_capital_denoms.
C38_CapitalSentInAcceptedDenoms ==
    (last.op = "complete" /\ last.ok)
        => /\ \A denom \in CapitalDenomsSent : Contains(state.like_capital_denoms, denom)
           /\ \A i \in 1..Len(last.messages) :
                 last.messages[i].type = "transfer_marker_coins"
                    => Contains(state.like_capital_denoms, last.messages[i].coin.denom)

====
